---------------------------- MODULE Spec2Model ----------------------------
(***************************************************************************)
(* Model of the car-card game server: the rules engine                     *)
(* (shared/game-engine.ts) and the per-match orchestrator                  *)
(* (src/game-manager.ts).                                                  *)
(*                                                                         *)
(* Representation.  A nullable object (a board slot, a pending modifier)   *)
(* is a sequence of length 0 (null) or 1 (the object).  A nullable string  *)
(* (a player id, a metric name) is the string itself or Null.  The game    *)
(* log, the match id and the wall-clock turn start time are left out: no   *)
(* rule reads them.                                                        *)
(***************************************************************************)
EXTENDS Integers, Sequences, FiniteSets, TLC

VARIABLES
    gameState,         \* GameManager.gameState: the authoritative IGameState
    lastPlayerStates,  \* GameManager.lastPlayerStates: the view each client was last sent
    playerSockets,     \* keys of GameManager.playerSockets
    botIds,            \* GameManager.botIds
    botTimers,         \* scheduled triggerBotMove callbacks that have not fired
    turnTimer,         \* GameManager.turnTimer is armed
    advanceTimers,     \* scheduled handleAdvanceTurn callbacks that have not fired
    resolveTimers,     \* scheduled round-resolve callbacks that have not fired
    gameEnds,          \* number of times endGame ran
    running,           \* FALSE once an Error escaped a handler of the process
    rounds,            \* rounds resolved so far (bounds the exploration)
    playersInLobby,    \* MatchmakingManager.playersInLobby, in insertion order
    aiSpawnTimer,      \* MatchmakingManager.aiSpawnTimer: <<>> or the instant it is due
    botCounter,        \* MatchmakingManager.botCounter
    activeGames,       \* index.ts activeGames: game id -> the user ids of its manager's players
    playerToGameMap,   \* index.ts playerToGameMap: user id -> game id
    gamesCreated,      \* game ids handed out so far
    authenticated,     \* users whose socket carries socket.data.userId
    clock              \* the value Date.now() gives

gameVars == <<gameState, lastPlayerStates, playerSockets, botIds, botTimers, turnTimer,
              advanceTimers, resolveTimers, gameEnds, running, rounds>>
serverVars == <<playersInLobby, aiSpawnTimer, botCounter, activeGames, playerToGameMap,
                gamesCreated>>
vars == <<gameVars, serverVars, authenticated, clock>>

----------------------------------------------------------------------------
(* Bounds of the exploration *)

\* Rounds a match is followed for when action cards are played in it.
MaxRounds == 1

\* Rounds a match is followed for while only car cards have been played in it.
MaxCarRounds == 4

\* The instant up to which the lobby's clock is followed and joins are accepted.
MaxTime == 8500

\* The step of the lobby's clock, in milliseconds.
TickMs == 500

\* Matches the lobby is followed for.
MaxGames == 2

----------------------------------------------------------------------------
(* Program constants *)

Null == "null"

P1 == "p1"
P2 == "p2"
PlayerIds == <<P1, P2>>
Players == {P1, P2}

Metrics == {"speed", "hp", "accel", "weight", "year"}

\* Cards dealt to each player at initialization.
InitialHandSize == 7
\* A hand larger than this forces a discard.
HandLimit == 10
\* Deck composition limits.
MaxCarsInDeck == 20
MaxActionsInDeck == 5
\* GameManager is built with turnTimeLimitSeconds * 1000.
TurnTimeLimitSeconds == 600

----------------------------------------------------------------------------
(* DeterministicRNG: a 32-bit xorshift.  A word is a tuple of 32 bits,      *)
(* least significant first; bit 32 is the sign.                             *)

WordBits == 32

RECURSIVE ToBitsFrom(_, _)
ToBitsFrom(n, k) ==
    IF k = 0 THEN <<>> ELSE <<n % 2>> \o ToBitsFrom(n \div 2, k - 1)

\* ToInt32 of a non-negative number below 2^31.
ToBits(n) == ToBitsFrom(n, WordBits)

\* (SubSeq makes each word an explicit tuple.)
Shl(b, k) == SubSeq([i \in 1..WordBits |-> IF i > k THEN b[i - k] ELSE 0], 1, WordBits)
Sar(b, k) == SubSeq([i \in 1..WordBits |-> IF i + k <= WordBits THEN b[i + k] ELSE b[WordBits]], 1, WordBits)
Xor(a, b) == SubSeq([i \in 1..WordBits |-> (a[i] + b[i]) % 2], 1, WordBits)

XorShl(seed, k) == Xor(seed, Shl(seed, k))
XorSar(seed, k) == Xor(seed, Sar(seed, k))

\* One step of the generator's state: seed ^= seed << 13; seed ^= seed >> 17; seed ^= seed << 5.
RngStep(seed) == XorShl(XorSar(XorShl(seed, 13), 17), 5)

RngModulus == 100000

RECURSIVE HornerMod(_, _, _, _)
\* The number whose bits k..1 are b's (inverted when inv), modulo RngModulus.
HornerMod(b, k, inv, acc) ==
    IF k = 0 THEN acc
    ELSE LET bit == IF inv THEN 1 - b[k] ELSE b[k]
         IN  HornerMod(b, k - 1, inv, (2 * acc + bit) % RngModulus)

\* (seed < 0 ? ~seed + 1 : seed) % 100000, the numerator of next().
RngValue(seed) ==
    IF seed[WordBits] = 1
    THEN (HornerMod(seed, WordBits, TRUE, 0) + 1) % RngModulus
    ELSE HornerMod(seed, WordBits, FALSE, 0)

\* Math.floor(next() * n), given the generator's state after the step.
RngIndex(seed, n) == (RngValue(seed) * n) \div RngModulus

\* [arr[i], arr[j]] = [arr[j], arr[i]]
Swap(arr, i, j) == [arr EXCEPT ![i] = arr[j], ![j] = arr[i]]

RECURSIVE ShuffleFrom(_, _, _)
RECURSIVE ShuffleStep(_, _, _)
\* DeterministicRNG.shuffle from position i (1-based) of the array down: [array, seed].
ShuffleFrom(arr, i, seed) ==
    IF i <= 1 \/ i > Len(arr) THEN [array |-> arr, seed |-> seed]
    ELSE ShuffleStep(arr, i, RngStep(seed))

\* The swap of position i with the position drawn from the stepped state s.
ShuffleStep(arr, i, s) == ShuffleFrom(Swap(arr, i, RngIndex(s, i) + 1), i - 1, s)

Shuffle(arr, seed) == ShuffleFrom(arr, Len(arr), seed)

----------------------------------------------------------------------------
(* The card catalog: ALL_GAME_CARD_DEFINITIONS after loadCardDefinitions.   *)
(* The car definitions come from an external data file; the catalog below   *)
(* stands for one such file.  The action definitions are the program's.     *)

Car(id, speed, hp, accel, weight, year) ==
    [id |-> id, type |-> "car",
     metrics |-> [speed |-> speed, hp |-> hp, accel |-> accel, weight |-> weight, year |-> year]]

jsonCarCards == <<
    Car("CAR_01", 210, 350, 4, 1600, 2001),
    Car("CAR_02", 220, 400, 3, 1400, 2002),
    Car("CAR_03", 230, 300, 4, 1700, 2003),
    Car("CAR_04", 200, 350, 3, 1400, 2004),
    Car("CAR_05", 210, 400, 4, 1600, 2000),
    Car("CAR_06", 220, 300, 3, 1500, 2001),
    Car("CAR_07", 230, 350, 4, 1600, 2002),
    Car("CAR_08", 200, 400, 3, 1400, 2003),
    Car("CAR_09", 210, 300, 4, 1700, 2004),
    Car("CAR_10", 220, 350, 3, 1400, 2000),
    Car("CAR_11", 230, 400, 4, 1600, 2001),
    Car("CAR_12", 200, 300, 3, 1500, 2002),
    Car("CAR_13", 210, 350, 4, 1600, 2003),
    Car("CAR_14", 220, 400, 3, 1400, 2004),
    Car("CAR_15", 230, 300, 4, 1700, 2000),
    Car("CAR_16", 200, 350, 3, 1400, 2001),
    Car("CAR_17", 210, 400, 4, 1600, 2002),
    Car("CAR_18", 220, 300, 3, 1500, 2003),
    Car("CAR_19", 230, 350, 4, 1600, 2004),
    Car("CAR_20", 200, 400, 3, 1400, 2000) >>

AllMetricsObject == [speed |-> 0, hp |-> 0, accel |-> 0, weight |-> 0, year |-> 0]

staticActionCards == <<
    [id |-> "ACTION_TIME_BOOST", type |-> "action",
     actionEffect |-> [type |-> "time_mod", value |-> 30, target |-> "game"]],
    [id |-> "ACTION_HP_BOOST_TEMP", type |-> "action",
     actionEffect |-> [type |-> "metric_mod_temp", targetMetric |-> "hp", value |-> 20,
                       modifierType |-> "percentage", target |-> "self"]],
    [id |-> "ACTION_HP_BOOST_PERM", type |-> "action",
     actionEffect |-> [type |-> "metric_mod_perm", targetMetric |-> "hp", value |-> 50,
                       modifierType |-> "absolute", target |-> "self"]],
    [id |-> "ACTION_EXTRA_TURN", type |-> "action",
     actionEffect |-> [type |-> "extra_turn", target |-> "self"]],
    [id |-> "ACTION_WEIGHT_PENALTY_TEMP", type |-> "action",
     actionEffect |-> [type |-> "metric_mod_temp", targetMetric |-> "weight", value |-> 200,
                       modifierType |-> "absolute", target |-> "opponent"]],
    [id |-> "ACTION_DROP_CARD", type |-> "action",
     actionEffect |-> [type |-> "drop_card", target |-> "opponent"]],
    [id |-> "ACTION_OVERRIDE_METRIC_CHOICE", type |-> "action",
     actionEffect |-> [type |-> "override_metric", availableMetrics |-> AllMetricsObject,
                       target |-> "self"]] >>

ALL_GAME_CARD_DEFINITIONS == jsonCarCards \o staticActionCards

Range(seq) == {seq[i] : i \in DOMAIN seq}

getCardDefinition(cardId) ==
    CHOOSE d \in Range(ALL_GAME_CARD_DEFINITIONS) : d.id = cardId

isCarCardDef(cardDef) == cardDef.type = "car"
isActionCardDef(cardDef) == cardDef.type = "action"

IsCarInstance(card) == isCarCardDef(getCardDefinition(card.cardId))

Min(a, b) == IF a <= b THEN a ELSE b

----------------------------------------------------------------------------
(* initializeGame *)

\* An instance minted for the n-th definition of the deck.  uuidv4 is
\* modelled by the minting order.
MintInstance(cardDef, n) ==
    IF isCarCardDef(cardDef)
    THEN [instanceId |-> n, cardId |-> cardDef.id,
          currentMetrics |-> cardDef.metrics, originalMetrics |-> cardDef.metrics,
          isModifiedPermanently |-> FALSE]
    ELSE [instanceId |-> n, cardId |-> cardDef.id]

RECURSIVE DealFrom(_, _, _)
\* The dealing loop: turn k of 2 * InitialHandSize pushes the deck's head
\* onto the hand of player 1 (k odd) or 2 (k even) while cards remain.
DealFrom(hands, deck, k) ==
    IF k > 2 * InitialHandSize THEN [hands |-> hands, drawPile |-> deck]
    ELSE IF Len(deck) = 0 THEN DealFrom(hands, deck, k + 1)
    ELSE DealFrom([hands EXCEPT ![2 - (k % 2)] = Append(@, Head(deck))], Tail(deck), k + 1)

\* { [playerIds[0]]: null, [playerIds[1]]: null }
NoSlots == (P1 :> <<>>) @@ (P2 :> <<>>)

\* The state initializeGame returns for the hands and the draw pile dealt.
InitialState(playerIds, initialSeed, timeLimit, dealt) ==
    [players |-> << [id |-> playerIds[1], hand |-> dealt.hands[1], score |-> 0],
                    [id |-> playerIds[2], hand |-> dealt.hands[2], score |-> 0] >>,
     currentPlayerId |-> playerIds[1],
     gameStatus |-> "playing",
     roundWinnerId |-> Null,
     winnerId |-> Null,
     selectedMetricForRound |-> Null,
     activeActionCardsOnBoard |-> NoSlots,
     carCardsOnBoard |-> NoSlots,
     discardPile |-> <<>>,
     drawPile |-> dealt.drawPile,
     lastPlayedCardInstanceId |-> <<>>,
     turnTimeLimit |-> timeLimit,
     rngSeed |-> initialSeed,
     extraTurnPlayerId |-> Null,
     currentPlayerPhase |-> "waiting_for_initial_play",
     pendingMetricModifiers |-> NoSlots]

\* allGameCardInstances: one instance per definition of the deck, in order.
MintAll(rawCardDefsForDeck) ==
    SubSeq([n \in 1..Len(rawCardDefsForDeck) |-> MintInstance(rawCardDefsForDeck[n], n)],
           1, Len(rawCardDefsForDeck))

\* The deck is shuffled with the generator the two shuffles before left, and dealt.
ShuffleAndDeal(playerIds, initialSeed, timeLimit, allGameCardInstances, seed) ==
    InitialState(playerIds, initialSeed, timeLimit,
                 DealFrom(<< <<>>, <<>> >>, Shuffle(allGameCardInstances, seed).array, 1))

\* The deck's definitions: the first cars and the first actions of the shuffles.
BuildDeck(playerIds, initialSeed, timeLimit, cars, numCarsInDeck, actions, numActionsInDeck) ==
    ShuffleAndDeal(playerIds, initialSeed, timeLimit,
                   MintAll(SubSeq(cars.array, 1, numCarsInDeck)
                              \o SubSeq(actions.array, 1, numActionsInDeck)),
                   actions.seed)

\* The action definitions are shuffled after the car definitions.
ShuffleDefinitions(playerIds, initialSeed, timeLimit, allActionCardDefs, cars, numCarsInDeck) ==
    BuildDeck(playerIds, initialSeed, timeLimit, cars, numCarsInDeck,
              Shuffle(allActionCardDefs, cars.seed),
              Min(MaxActionsInDeck, Len(allActionCardDefs)))

SelectDefinitions(playerIds, initialSeed, timeLimit, allCarCardDefs, allActionCardDefs) ==
    ShuffleDefinitions(playerIds, initialSeed, timeLimit, allActionCardDefs,
                       Shuffle(allCarCardDefs, ToBits(initialSeed)),
                       Min(MaxCarsInDeck, Len(allCarCardDefs)))

initializeGame(playerIds, initialSeed, timeLimit) ==
    SelectDefinitions(playerIds, initialSeed, timeLimit,
                      SelectSeq(ALL_GAME_CARD_DEFINITIONS, isCarCardDef),
                      SelectSeq(ALL_GAME_CARD_DEFINITIONS, isActionCardDef))

----------------------------------------------------------------------------
(* Helpers of the engine *)

PlayerIndex(state, playerId) == CHOOSE i \in 1..2 : state.players[i].id = playerId
OpponentIndex(state, playerId) == CHOOSE i \in 1..2 : state.players[i].id # playerId

getPlayerState(state, playerId) == state.players[PlayerIndex(state, playerId)]
getOpponentPlayerState(state, playerId) == state.players[OpponentIndex(state, playerId)]

\* A payload's selectedMetric that was not sent.
Undefined == "undefined"
\* JavaScript truthiness of a string that may be undefined or null.
Truthy(v) == v # Undefined /\ v # Null /\ v # ""

\* hand.findIndex(c => c.instanceId === id), 1-based; 0 when absent.
IndexOfInstance(hand, id) ==
    IF \E i \in 1..Len(hand) : hand[i].instanceId = id
    THEN CHOOSE i \in 1..Len(hand) :
            /\ hand[i].instanceId = id
            /\ \A j \in 1..(i - 1) : hand[j].instanceId # id
    ELSE 0

RemoveAt(seq, i) == SubSeq(seq, 1, i - 1) \o SubSeq(seq, i + 1, Len(seq))

\* Properties every object inherits: "key in object" holds for them too.
ObjectPrototypeKeys == {"constructor", "toString", "valueOf", "hasOwnProperty"}
KeyIn(key, object) == key \in (DOMAIN object) \cup ObjectPrototypeKeys

\* object[metric] of a metrics object: a number, or undefined for a key it lacks.
MetricValue(card, metric) ==
    IF metric \in DOMAIN card.currentMetrics THEN <<card.currentMetrics[metric]>> ELSE <<>>

\* a < b in JavaScript, where <<>> is undefined: false unless both are numbers.
JsLess(a, b) == a # <<>> /\ b # <<>> /\ a[1] < b[1]

----------------------------------------------------------------------------
(* isValidPlay.  The messages are named, not quoted. *)

MsgNotInHand == "card_not_in_hand"
MsgActionPhase == "action_only_at_turn_start"
MsgCarPhase == "car_not_playable_now"
MsgNeedMetric == "metric_required_for_first_car"
MsgOverride == "invalid_override_metric"
MsgInternalNotInHand == "internal_card_not_in_hand"
MsgMetricRequired == "metric_required"
MsgResolveFailed == "internal_error_resolving_round"

Invalid(message) == [isValid |-> FALSE, message |-> message]
Valid == [isValid |-> TRUE, message |-> Undefined]

\* The checks on a card found in the hand, in the order of the code.
ValidateCard(state, payload, cardDef, pendingModifier) ==
    IF isActionCardDef(cardDef) /\ state.currentPlayerPhase # "waiting_for_initial_play"
    THEN Invalid(MsgActionPhase)
    ELSE IF /\ isCarCardDef(cardDef)
            /\ state.currentPlayerPhase # "waiting_for_initial_play"
            /\ state.currentPlayerPhase # "waiting_for_car_card_after_action"
    THEN Invalid(MsgCarPhase)
    ELSE IF /\ isCarCardDef(cardDef)
            /\ state.selectedMetricForRound = Null
            /\ ~Truthy(payload.selectedMetric)
    THEN Invalid(MsgNeedMetric)
    ELSE IF /\ pendingModifier # <<>>
            /\ pendingModifier[1].effect.type = "override_metric"
            /\ \/ ~Truthy(payload.selectedMetric)
               \/ ~KeyIn(payload.selectedMetric, pendingModifier[1].effect.availableMetrics)
    THEN Invalid(MsgOverride)
    ELSE Valid

\* The card must be in the hand of the player: idx is its position, or 0.
ValidateFound(state, playerId, payload, hand, idx) ==
    IF idx = 0 THEN Invalid(MsgNotInHand)
    ELSE ValidateCard(state, payload, getCardDefinition(hand[idx].cardId),
                      state.pendingMetricModifiers[playerId])

isValidPlay(state, playerId, cardInstanceId, payload) ==
    ValidateFound(state, playerId, payload, getPlayerState(state, playerId).hand,
                  IndexOfInstance(getPlayerState(state, playerId).hand, cardInstanceId))

----------------------------------------------------------------------------
(* checkGameEndConditions, endGameByTimeout, advanceTurn *)

CarCardsIn(hand) == SelectSeq(hand, IsCarInstance)

\* The two end conditions, for the current player and their opponent.
EndConditions(state, currentPlayerState, opponentPlayerState) ==
    IF /\ Len(CarCardsIn(currentPlayerState.hand)) = 0
       /\ state.currentPlayerPhase \in
             {"waiting_for_initial_play", "waiting_for_car_card_after_action"}
    THEN [state EXCEPT !.winnerId = opponentPlayerState.id, !.gameStatus = "win"]
    ELSE IF /\ Len(currentPlayerState.hand) = 0
            /\ Len(opponentPlayerState.hand) = 0
            /\ Len(state.drawPile) = 0
    THEN [state EXCEPT !.gameStatus = "tie"]
    ELSE state

checkGameEndConditions(state) ==
    EndConditions(state, getPlayerState(state, state.currentPlayerId),
                  getOpponentPlayerState(state, state.currentPlayerId))

endGameByTimeout(state, timedOutPlayerId) ==
    IF state.gameStatus # "playing" THEN state
    ELSE [state EXCEPT !.winnerId = getOpponentPlayerState(state, timedOutPlayerId).id,
                       !.gameStatus = "win"]

\* (variant: the round's winner comes before the extra turn)
advanceTurnWinnerFirst(state, roundWinnerId) ==
    IF state.gameStatus # "playing" THEN state
    ELSE [state EXCEPT !.roundWinnerId = Null,
                       !.selectedMetricForRound = Null,
                       !.extraTurnPlayerId = Null,
                       !.currentPlayerId =
                            IF Truthy(roundWinnerId) THEN roundWinnerId
                            ELSE IF Truthy(state.extraTurnPlayerId) THEN state.extraTurnPlayerId
                            ELSE getOpponentPlayerState(state, state.currentPlayerId).id,
                       !.currentPlayerPhase = "waiting_for_initial_play"]

advanceTurn(state, roundWinnerId) ==
    IF state.gameStatus # "playing" THEN state
    ELSE [state EXCEPT !.roundWinnerId = Null,
                       !.selectedMetricForRound = Null,
                       !.extraTurnPlayerId = Null,
                       !.currentPlayerId =
                            IF Truthy(state.extraTurnPlayerId) THEN state.extraTurnPlayerId
                            ELSE IF Truthy(roundWinnerId) THEN roundWinnerId
                            ELSE getOpponentPlayerState(state, state.currentPlayerId).id,
                       !.currentPlayerPhase = "waiting_for_initial_play"]

----------------------------------------------------------------------------
(* resolveRound.  The result is [threw, state]: the function throws when a  *)
(* car or the metric is missing.                                            *)

Threw(state) == [threw |-> TRUE, state |-> state]
Returned(state) == [threw |-> FALSE, state |-> state]

\* (variant: only weight is a lower-wins metric)
RoundWinnerAccelHigher(metric, player1Id, player1MetricValue, player2Id, player2MetricValue) ==
    IF metric = "weight"
    THEN IF JsLess(player1MetricValue, player2MetricValue) THEN player1Id
         ELSE IF JsLess(player2MetricValue, player1MetricValue) THEN player2Id
         ELSE Null
    ELSE IF JsLess(player2MetricValue, player1MetricValue) THEN player1Id
         ELSE IF JsLess(player1MetricValue, player2MetricValue) THEN player2Id
         ELSE Null

\* The round's winner: lower wins for weight and accel, higher otherwise.
RoundWinner(metric, player1Id, player1MetricValue, player2Id, player2MetricValue) ==
    IF metric = "weight" \/ metric = "accel"
    THEN IF JsLess(player1MetricValue, player2MetricValue) THEN player1Id
         ELSE IF JsLess(player2MetricValue, player1MetricValue) THEN player2Id
         ELSE Null
    ELSE IF JsLess(player2MetricValue, player1MetricValue) THEN player1Id
         ELSE IF JsLess(player1MetricValue, player2MetricValue) THEN player2Id
         ELSE Null

\* A hand over the limit makes the round's winner the player who must discard.
CapHand(state, roundWinnerId, w) ==
    IF Len(state.players[w].hand) > HandLimit
    THEN [state EXCEPT !.currentPlayerPhase = "must_discard",
                       !.currentPlayerId = roundWinnerId]
    ELSE state

\* The winner (index w) takes their own car, then the car of the loser (index l).
WinnerTakes(state, roundWinnerId, w, l) ==
    CapHand([state EXCEPT
                !.players[w].hand = @ \o << state.carCardsOnBoard[state.players[w].id][1],
                                            state.carCardsOnBoard[state.players[l].id][1] >>,
                !.players[w].score = @ + 1],
            roundWinnerId, w)

\* (variant: in a tie the cars are not pushed back to the hands)
SettleCardsTieLosesCars(state, roundWinnerId) ==
    IF roundWinnerId # Null
    THEN WinnerTakes(state, roundWinnerId,
                     PlayerIndex(state, roundWinnerId), OpponentIndex(state, roundWinnerId))
    ELSE state

\* The hands, score and turn after the cars leave the board.
SettleCards(state, roundWinnerId) ==
    IF roundWinnerId # Null
    THEN WinnerTakes(state, roundWinnerId,
                     PlayerIndex(state, roundWinnerId), OpponentIndex(state, roundWinnerId))
    ELSE [state EXCEPT
             !.players[1].hand = Append(@, state.carCardsOnBoard[state.players[1].id][1]),
             !.players[2].hand = Append(@, state.carCardsOnBoard[state.players[2].id][1])]

\* (variant: the action slots are left as they are)
ClearBoardCarsOnly(state) == [state EXCEPT !.carCardsOnBoard = NoSlots]

\* Both board slots and both action slots are emptied.
ClearBoard(state) ==
    [state EXCEPT !.carCardsOnBoard = NoSlots, !.activeActionCardsOnBoard = NoSlots]

\* The round is closed for the winner found (Null for a tie).
CloseRound(state, roundWinnerId) ==
    checkGameEndConditions(
        ClearBoard([SettleCards(state, roundWinnerId) EXCEPT !.roundWinnerId = roundWinnerId]))

resolveRound(state) ==
    IF \/ state.carCardsOnBoard[state.players[1].id] = <<>>
       \/ state.carCardsOnBoard[state.players[2].id] = <<>>
       \/ ~Truthy(state.selectedMetricForRound)
    THEN Threw(state)
    ELSE Returned(CloseRound(state,
            RoundWinner(state.selectedMetricForRound,
                        state.players[1].id,
                        MetricValue(state.carCardsOnBoard[state.players[1].id][1],
                                    state.selectedMetricForRound),
                        state.players[2].id,
                        MetricValue(state.carCardsOnBoard[state.players[2].id][1],
                                    state.selectedMetricForRound))))

----------------------------------------------------------------------------
(* performPlay.  The result is [success, threw, newState, message]: a       *)
(* failure object leaves newState at the state that was passed in, and so   *)
(* does the uncaught Error of an inconsistent pending modifier.             *)

Success(newState) ==
    [success |-> TRUE, threw |-> FALSE, newState |-> newState, message |-> Undefined]
Failure(state, message) ==
    [success |-> FALSE, threw |-> FALSE, newState |-> state, message |-> message]
Thrown(state) ==
    [success |-> FALSE, threw |-> TRUE, newState |-> state, message |-> Undefined]

\* Math.round(originalValue * (1 + value / 100)) for the non-negative values of the catalog.
PercentageOf(originalValue, value) == (originalValue * (100 + value) + 50) \div 100

\* Math.floor(new DeterministicRNG(seed).next() * n)
NextIndex(seed, n) == RngIndex(RngStep(ToBits(seed)), n)

\* (variant: the played card is not removed from the hand)
TakeFromHandKeepsCard(state, playerId, cardIndex) == state

\* player.hand.splice(cardIndex, 1)
TakeFromHand(state, playerId, cardIndex) ==
    [state EXCEPT !.players[PlayerIndex(state, playerId)].hand = RemoveAt(@, cardIndex)]

\* The opponent (index o) loses the card at cardIndexToDrop to the discard pile.
DropCard(state, o, cardIndexToDrop) ==
    [state EXCEPT !.players[o].hand = RemoveAt(@, cardIndexToDrop),
                  !.discardPile = Append(@, state.players[o].hand[cardIndexToDrop])]

\* The switch on the effect's type; o is the index of the opponent.
ActionEffect(state, playerId, cardInstance, effect, o) ==
    CASE effect.type = "time_mod" ->
            [state EXCEPT !.turnTimeLimit = @ + effect.value]
      [] effect.type = "extra_turn" ->
            [state EXCEPT !.extraTurnPlayerId = playerId]
      [] effect.type = "drop_card" ->
            IF Len(state.players[o].hand) > 0
            THEN DropCard(state, o,
                          NextIndex(state.rngSeed + Len(state.players[o].hand),
                                    Len(state.players[o].hand)) + 1)
            ELSE state
      [] effect.type \in {"metric_mod_temp", "metric_mod_perm", "override_metric"} ->
            [state EXCEPT
                !.pendingMetricModifiers[IF effect.target = "opponent"
                                         THEN state.players[o].id
                                         ELSE playerId] =
                    << [sourcePlayerId |-> playerId,
                        actionCardInstanceId |-> cardInstance.instanceId,
                        effect |-> effect] >>]

\* 1. An action card: it goes to the player's action slot and takes effect.
PlayActionCard(state, playerId, cardInstance) ==
    [ActionEffect([state EXCEPT !.activeActionCardsOnBoard[playerId] = <<cardInstance>>],
                  playerId, cardInstance,
                  getCardDefinition(cardInstance.cardId).actionEffect,
                  OpponentIndex(state, playerId))
        EXCEPT !.currentPlayerPhase = "waiting_for_car_card_after_action"]

\* (variant: every modifier is taken as a percentage)
ModifiedValueAlwaysPercentage(originalValue, effect) ==
    PercentageOf(originalValue, effect.value)

\* The value a metric modifier gives for the car's original value.
ModifiedValue(originalValue, effect) ==
    IF effect.modifierType = "percentage"
    THEN PercentageOf(originalValue, effect.value)
    ELSE originalValue + effect.value

\* The car with the pending modifier's effect on its current metrics.
ModifiedCar(card, effect) ==
    IF effect.type = "metric_mod_temp" \/ effect.type = "metric_mod_perm"
    THEN [card EXCEPT
             !.currentMetrics[effect.targetMetric] =
                  ModifiedValue(card.originalMetrics[effect.targetMetric], effect),
             !.isModifiedPermanently = (@ \/ effect.type = "metric_mod_perm")]
    ELSE card

\* (variant: an override leaves a metric the round already has)
ApplyPendingModifierKeepsMetric(state, playerId, payload, effect) ==
    [state EXCEPT
        !.carCardsOnBoard[playerId] = <<ModifiedCar(@[1], effect)>>,
        !.pendingMetricModifiers[playerId] = <<>>]

\* I. The pending modifier of the player is applied to the car and removed.
ApplyPendingModifier(state, playerId, payload, effect) ==
    [state EXCEPT
        !.carCardsOnBoard[playerId] = <<ModifiedCar(@[1], effect)>>,
        !.selectedMetricForRound =
             IF effect.type = "override_metric" /\ Truthy(payload.selectedMetric)
             THEN payload.selectedMetric
             ELSE @,
        !.pendingMetricModifiers[playerId] = <<>>]

\* II. The metric of the round is the first car's; the turn of the player ends.
SetRoundMetric(state, original, payload) ==
    IF state.selectedMetricForRound = Null
    THEN IF ~Truthy(payload.selectedMetric)
         THEN Failure(original, MsgMetricRequired)
         ELSE Success([state EXCEPT !.selectedMetricForRound = payload.selectedMetric,
                                    !.currentPlayerPhase = "turn_ended"])
    ELSE Success([state EXCEPT !.currentPlayerPhase = "turn_ended"])

\* A pending modifier whose action card has left the board is an Error thrown
\* out of performPlay; every card of a hand has a definition.
WithPendingModifier(state, original, playerId, payload, pendingModifier) ==
    IF pendingModifier = <<>> THEN SetRoundMetric(state, original, payload)
    ELSE IF state.activeActionCardsOnBoard[pendingModifier[1].sourcePlayerId] = <<>>
    THEN Thrown(original)
    ELSE SetRoundMetric(ApplyPendingModifier(state, playerId, payload,
                                             pendingModifier[1].effect),
                        original, payload)

\* 2. A car card: it goes to the player's car slot.
PlayCarCard(state, original, playerId, cardInstance, payload) ==
    WithPendingModifier([state EXCEPT
                            !.carCardsOnBoard[playerId] = <<cardInstance>>,
                            !.lastPlayedCardInstanceId = <<cardInstance.instanceId>>],
                        original, playerId, payload,
                        state.pendingMetricModifiers[playerId])

\* The card's own logic, on the state with the card taken out of the hand.
PlayInstance(taken, original, playerId, cardInstance, payload) ==
    IF isActionCardDef(getCardDefinition(cardInstance.cardId))
    THEN Success(PlayActionCard(taken, playerId, cardInstance))
    ELSE PlayCarCard(taken, original, playerId, cardInstance, payload)

\* The card is looked up in the hand again and spliced out of it.
PlayFromHand(state, playerId, payload, cardIndex) ==
    IF cardIndex = 0 THEN Failure(state, MsgInternalNotInHand)
    ELSE PlayInstance(TakeFromHand(state, playerId, cardIndex), state, playerId,
                      getPlayerState(state, playerId).hand[cardIndex], payload)

\* A play that is not valid fails with the validation's message.
PlayValidated(state, playerId, cardInstanceId, payload, validation) ==
    IF ~validation.isValid THEN Failure(state, validation.message)
    ELSE PlayFromHand(state, playerId, payload,
                      IndexOfInstance(getPlayerState(state, playerId).hand, cardInstanceId))

\* Validation and the card's own logic, before the round is looked at.
PlaceCard(state, playerId, cardInstanceId, payload) ==
    PlayValidated(state, playerId, cardInstanceId, payload,
                  isValidPlay(state, playerId, cardInstanceId, payload))

BothCarsOnBoard(state) ==
    state.carCardsOnBoard[P1] # <<>> /\ state.carCardsOnBoard[P2] # <<>>

\* (variant: the turn stays with the player of the first car)
PassToOpponentNever(checked, playerId, opponentId) == checked

\* The turn passes to the opponent after a first car that ended nothing.
PassToOpponent(checked, playerId, opponentId) ==
    IF /\ checked.gameStatus = "playing"
       /\ checked.roundWinnerId = Null
       /\ checked.currentPlayerId = playerId
       /\ checked.currentPlayerPhase = "turn_ended"
       /\ checked.carCardsOnBoard[opponentId] = <<>>
    THEN [checked EXCEPT !.currentPlayerId = opponentId,
                         !.currentPlayerPhase = "waiting_for_initial_play"]
    ELSE checked

\* The end of the game is checked, then the turn passes.
PassTurn(state, playerId) ==
    PassToOpponent(checkGameEndConditions(state), playerId,
                   getOpponentPlayerState(state, playerId).id)

\* (variant: the phase resolveRound chose is overwritten)
AfterResolveAlwaysRoundResolved(original, resolved) ==
    IF resolved.threw THEN Failure(original, MsgResolveFailed)
    ELSE Success([resolved.state EXCEPT !.currentPlayerPhase = "round_resolved"])

\* The try block around resolveRound: the phase becomes round_resolved unless
\* the round left the winner with cards to discard.
AfterResolve(original, resolved) ==
    IF resolved.threw THEN Failure(original, MsgResolveFailed)
    ELSE IF resolved.state.currentPlayerPhase # "must_discard"
    THEN Success([resolved.state EXCEPT !.currentPlayerPhase = "round_resolved"])
    ELSE Success(resolved.state)

\* With both cars on the board the round is resolved at once.
ResolveIfBothOnBoard(state, original, playerId) ==
    IF BothCarsOnBoard(state)
    THEN AfterResolve(original, resolveRound(state))
    ELSE Success(state)

\* The play ends with the end-of-game check and the passing of the turn.
EndPlay(resolved, playerId) ==
    IF ~resolved.success THEN resolved
    ELSE Success(PassTurn(resolved.newState, playerId))

\* The round is looked at once the card has been placed.
ContinuePlay(placed, original, playerId) ==
    IF ~placed.success THEN placed
    ELSE EndPlay(ResolveIfBothOnBoard(placed.newState, original, playerId), playerId)

performPlay(state, playerId, cardInstanceId, payload) ==
    ContinuePlay(PlaceCard(state, playerId, cardInstanceId, payload), state, playerId)

----------------------------------------------------------------------------
(* The engine's calls of uuidv4() and Date.now().  The state machine names   *)
(* a card instance by the ordinal of the uuidv4() call that minted it and    *)
(* leaves gameId and currentTurnStartTime out; the definitions below give    *)
(* them the values one run of the engine obtains.                           *)

\* What the calls of uuidv4() return in a run, by ordinal of the call: one
\* per card of the deck, then the gameId.  Two runs draw different values.
UuidOutcomes ==
    {[n \in 1..(MaxCarsInDeck + MaxActionsInDeck + 1) |-> <<"uuid", r, n>>] : r \in {"a", "b"}}

\* What Date.now() returns, in milliseconds after the creation of the room.
Instants == {0, 1}

\* One run's outcomes: uuidv4 by ordinal of the call, and the value of Date.now().
Runs == [uuidv4 : UuidOutcomes, now : Instants]

\* instanceId: uuidv4()
Identified(cards, run) ==
    SubSeq([k \in 1..Len(cards) |-> [cards[k] EXCEPT !.instanceId = run.uuidv4[@]]],
           1, Len(cards))

\* The state initializeGame returns in a run, for the state the state machine
\* starts from: the identifiers minted, the gameId and currentTurnStartTime.
InRun(state, run) ==
    ("gameId" :> run.uuidv4[MaxCarsInDeck + MaxActionsInDeck + 1])
        @@ ("currentTurnStartTime" :> run.now)
        @@ [state EXCEPT !.players[1].hand = Identified(@, run),
                         !.players[2].hand = Identified(@, run),
                         !.drawPile = Identified(@, run)]

initializeGameIn(run, playerIds, initialSeed, timeLimit) ==
    InRun(initializeGame(playerIds, initialSeed, timeLimit), run)

\* currentTurnStartTime after performPlay: Date.now() when the turn passed to
\* the opponent, the previous value otherwise.
TurnStartAfterPlay(run, state, playerId, result, previous) ==
    IF /\ result.success
       /\ state.currentPlayerId = playerId
       /\ result.newState.currentPlayerId # playerId
       /\ result.newState.currentPlayerPhase = "waiting_for_initial_play"
    THEN run.now
    ELSE previous

\* currentTurnStartTime after advanceTurn: Date.now() in a match being played.
TurnStartAfterAdvance(run, state, previous) ==
    IF state.gameStatus # "playing" THEN previous ELSE run.now

----------------------------------------------------------------------------
(* getClientGameState *)

HiddenCardBack == "HIDDEN_CARD_BACK"

\* (variant: only the definition identifier of an opponent card is replaced)
HideHandKeepsFields(hand) ==
    SubSeq([i \in 1..Len(hand) |-> [hand[i] EXCEPT !.cardId = HiddenCardBack]],
           1, Len(hand))

HideHand(hand) ==
    SubSeq([i \in 1..Len(hand) |->
               [instanceId |-> hand[i].instanceId, cardId |-> HiddenCardBack]],
           1, Len(hand))

getClientGameState(serverState, requestingPlayerId) ==
    [players |-> << IF serverState.players[1].id # requestingPlayerId
                    THEN [serverState.players[1] EXCEPT !.hand = HideHand(@)]
                    ELSE serverState.players[1],
                    IF serverState.players[2].id # requestingPlayerId
                    THEN [serverState.players[2] EXCEPT !.hand = HideHand(@)]
                    ELSE serverState.players[2] >>,
     currentPlayerId |-> serverState.currentPlayerId,
     gameStatus |-> serverState.gameStatus,
     roundWinnerId |-> serverState.roundWinnerId,
     winnerId |-> serverState.winnerId,
     selectedMetricForRound |-> serverState.selectedMetricForRound,
     activeActionCardsOnBoard |-> serverState.activeActionCardsOnBoard,
     carCardsOnBoard |-> serverState.carCardsOnBoard,
     discardPile |-> serverState.discardPile,
     drawPile |-> <<>>,
     drawPileSize |-> Len(serverState.drawPile),
     lastPlayedCardInstanceId |-> serverState.lastPlayedCardInstanceId,
     turnTimeLimit |-> serverState.turnTimeLimit,
     extraTurnPlayerId |-> serverState.extraTurnPlayerId,
     currentPlayerPhase |-> serverState.currentPlayerPhase,
     pendingMetricModifiers |-> serverState.pendingMetricModifiers]

----------------------------------------------------------------------------
(* GameManager.  A manager value m holds the fields of the object and, in   *)
(* m.emitted, the messages sent since the handler was entered; every method *)
(* is a function from the manager before to the manager after.              *)
(* A bot has no socket and no stored snapshot; its moves come from          *)
(* triggerBotMove.                                                          *)

Room == "room"

Message(to, event, message) == [to |-> to, event |-> event, message |-> message]

Emit(m, to, event, message) ==
    [m EXCEPT !.emitted = Append(@, Message(to, event, message))]

clearTurnTimer(m) == [m EXCEPT !.turnTimer = FALSE]
startTurnTimer(m) == [m EXCEPT !.turnTimer = TRUE]

\* The server's onGameEnd callback destroys the manager: the timer is cleared again.
endGame(m) ==
    [Emit(clearTurnTimer(m), Room, "game:end",
          [winnerId |-> m.gameState.winnerId, gameStatus |-> m.gameState.gameStatus]) EXCEPT
        !.gameEnds = @ + 1]

\* jsonpatch.compare(tree1, tree2), at the depth of the state's fields: the
\* fields to remove, and the fields to add or replace with their new values.
compare(tree1, tree2) ==
    [remove  |-> DOMAIN tree1 \ DOMAIN tree2,
     replace |-> [k \in {f \in DOMAIN tree2 : f \notin DOMAIN tree1 \/ tree1[f] # tree2[f]}
                     |-> tree2[k]]]

\* patch.length
PatchLength(patch) == Cardinality(patch.remove) + Cardinality(DOMAIN patch.replace)

\* (variant: the patch is sent but the view it leads to is not stored)
EmitPatchForgetsView(m, p, newStateForPlayer, patch) ==
    IF PatchLength(patch) > 0
    THEN Emit(m, p, "game:patch", patch)
    ELSE m

\* The patch is sent when it is not empty, and the view it leads to is stored.
EmitPatch(m, p, newStateForPlayer, patch) ==
    IF PatchLength(patch) > 0
    THEN [Emit(m, p, "game:patch", patch) EXCEPT
             !.lastPlayerStates[p] = <<newStateForPlayer>>]
    ELSE m

PatchOf(m, p, newStateForPlayer) ==
    EmitPatch(m, p, newStateForPlayer, compare(m.lastPlayerStates[p][1], newStateForPlayer))

\* One player's part of broadcastState.
SendPatch(m, p) ==
    IF p \notin m.botIds /\ p \in m.playerSockets /\ m.lastPlayerStates[p] # <<>>
    THEN PatchOf(m, p, getClientGameState(m.gameState, p))
    ELSE m

broadcastState(m) ==
    SendPatch(SendPatch(m, m.gameState.players[1].id), m.gameState.players[2].id)

\* A bot whose turn it is in a waiting phase is triggered 1500 ms later.
ScheduleBot(m) ==
    IF /\ m.gameState.currentPlayerId \in m.botIds
       /\ m.gameState.currentPlayerPhase \in
             {"waiting_for_initial_play", "waiting_for_car_card_after_action"}
    THEN [m EXCEPT !.botTimers = @ + 1]
    ELSE m

\* (variant: no auto-advance is scheduled for a resolved round)
ScheduleNextNoAutoAdvance(m) ==
    IF m.gameState.gameStatus # "playing"
    THEN endGame(broadcastState(m))
    ELSE IF m.gameState.currentPlayerPhase = "both_cards_on_board"
    THEN [clearTurnTimer(m) EXCEPT !.resolveTimers = @ + 1]
    ELSE IF m.gameState.currentPlayerPhase = "round_resolved"
    THEN clearTurnTimer(m)
    ELSE ScheduleBot(startTurnTimer(m))

\* The end of the match, or the timers the phase calls for.  No callback is
\* modelled for resolveTimers: the engine never leaves both_cards_on_board.
ScheduleNext(m) ==
    IF m.gameState.gameStatus # "playing"
    THEN endGame(broadcastState(m))
    ELSE IF m.gameState.currentPlayerPhase = "both_cards_on_board"
    THEN [clearTurnTimer(m) EXCEPT !.resolveTimers = @ + 1]
    ELSE IF m.gameState.currentPlayerPhase = "round_resolved"
    THEN [clearTurnTimer(m) EXCEPT !.advanceTimers = @ + 1]
    ELSE ScheduleBot(startTurnTimer(m))

\* (variant: the orchestrator does not check the end of the game)
updateStateNoEndCheck(m, newState) ==
    ScheduleNext(broadcastState([m EXCEPT !.gameState = newState]))

updateState(m, newState) ==
    ScheduleNext([broadcastState([m EXCEPT !.gameState = newState]) EXCEPT
                     !.gameState = checkGameEndConditions(@)])

\* The callback updateState schedules 1000 ms after a state in phase
\* both_cards_on_board: it resolves the round if the match is still there.
ResolvedByCallback(m, resolved) ==
    IF resolved.threw THEN [m EXCEPT !.running = FALSE]
    ELSE IF resolved.state.currentPlayerPhase # "must_discard"
    THEN updateState(m, [resolved.state EXCEPT !.currentPlayerPhase = "round_resolved"])
    ELSE updateState(m, resolved.state)
resolveCallback(m) ==
    IF m.gameState.gameStatus # "playing" \/ m.gameState.currentPlayerPhase # "both_cards_on_board"
    THEN m
    ELSE ResolvedByCallback(m, resolveRound(m.gameState))

\* The result of performPlay: an Error ends the process, a success becomes
\* the state, a failure is reported to the sender.
AfterPlay(m, playerId, result) ==
    IF result.threw THEN [m EXCEPT !.running = FALSE]
    ELSE IF result.success THEN updateState(m, result.newState)
    ELSE IF playerId \in m.playerSockets
    THEN Emit(m, playerId, "game:error", [message |-> result.message])
    ELSE m

\* (variant: the sender is not compared with the current player)
handlePlayerMoveAnySender(m, playerId, data) ==
    IF m.gameState.gameStatus # "playing"
    THEN m
    ELSE AfterPlay(m, playerId,
                   performPlay(m.gameState, playerId, data.cardInstanceId, data.payload))

\* The payload a client left out is the empty object.
handlePlayerMove(m, playerId, data) ==
    IF m.gameState.currentPlayerId # playerId \/ m.gameState.gameStatus # "playing"
    THEN m
    ELSE IF m.gameState.currentPlayerPhase = "both_cards_on_board"
    THEN IF playerId \in m.playerSockets
         THEN Emit(m, playerId, "game:error", [message |-> "comparison_in_progress"])
         ELSE m
    ELSE AfterPlay(m, playerId,
                   performPlay(m.gameState, playerId, data.cardInstanceId, data.payload))

\* (variant: the phase is not looked at)
handleAdvanceTurnAnyPhase(m) ==
    IF m.gameState.gameStatus = "playing"
    THEN updateState(m, advanceTurn(m.gameState, m.gameState.roundWinnerId))
    ELSE m

handleAdvanceTurn(m) ==
    IF m.gameState.currentPlayerPhase = "round_resolved" /\ m.gameState.gameStatus = "playing"
    THEN updateState(m, advanceTurn(m.gameState, m.gameState.roundWinnerId))
    ELSE m

\* The bot policy: the first car of the hand, with a metric drawn by
\* Math.random() when the round has none; null without a car.
decideMove(state, botId, randomMetric) ==
    IF Len(CarCardsIn(getPlayerState(state, botId).hand)) = 0
    THEN <<>>
    ELSE << [cardInstanceId |-> CarCardsIn(getPlayerState(state, botId).hand)[1].instanceId,
             payload |-> [selectedMetric |->
                             IF state.selectedMetricForRound = Null
                             THEN randomMetric
                             ELSE Undefined]] >>

\* The bot forfeits: its opponent is named the winner and the match is ended.
Forfeit(m, botId) ==
    endGame([m EXCEPT
                !.gameState.winnerId = getOpponentPlayerState(m.gameState, botId).id,
                !.gameState.gameStatus = "win"])

\* (variant: a rejected move of the bot is ignored)
AfterBotPlayIgnoresRejection(m, botId, result) ==
    IF result.threw THEN [m EXCEPT !.running = FALSE]
    ELSE IF result.success THEN updateState(m, result.newState)
    ELSE m

\* The result of the bot's performPlay: an Error ends the process, a success
\* becomes the state, a failure is a forfeit.
AfterBotPlay(m, botId, result) ==
    IF result.threw THEN [m EXCEPT !.running = FALSE]
    ELSE IF result.success THEN updateState(m, result.newState)
    ELSE Forfeit(m, botId)

\* What triggerBotMove does with the policy's answer: null, or a move.
AfterDecision(m, botId, move) ==
    IF move = <<>> THEN Forfeit(m, botId)
    ELSE AfterBotPlay(m, botId,
                      performPlay(m.gameState, botId, move[1].cardInstanceId, move[1].payload))

\* (variant: the step does not look at whose turn it is nor at the status)
triggerBotMoveUnchecked(m, randomMetric) ==
    IF m.gameState.currentPlayerPhase = "both_cards_on_board"
    THEN m
    ELSE AfterDecision(m, m.gameState.currentPlayerId,
                       decideMove(m.gameState, m.gameState.currentPlayerId, randomMetric))

triggerBotMove(m, randomMetric) ==
    IF m.gameState.currentPlayerId \notin m.botIds \/ m.gameState.gameStatus # "playing"
    THEN m
    ELSE IF m.gameState.currentPlayerPhase = "both_cards_on_board"
    THEN m
    ELSE AfterDecision(m, m.gameState.currentPlayerId,
                       decideMove(m.gameState, m.gameState.currentPlayerId, randomMetric))

\* (variant: the match is ended without publishing the final state)
handleTimeoutUnpublished(m) ==
    IF m.gameState.gameStatus # "playing" THEN m
    ELSE endGame([m EXCEPT !.gameState =
                               endGameByTimeout(m.gameState, m.gameState.currentPlayerId)])

handleTimeout(m) ==
    IF m.gameState.gameStatus # "playing" THEN m
    ELSE updateState(m, endGameByTimeout(m.gameState, m.gameState.currentPlayerId))

\* (variant: the player who disconnects is named the winner)
handlePlayerDisconnectLeaverWins(m, playerId) ==
    IF m.gameState.gameStatus = "playing"
    THEN endGame([m EXCEPT
                    !.playerSockets = @ \ {playerId},
                    !.gameState.winnerId = playerId,
                    !.gameState.gameStatus = "win"])
    ELSE [m EXCEPT !.playerSockets = @ \ {playerId}]

\* (variant: a disconnect forfeits the match whatever its status)
handlePlayerDisconnectAnyStatus(m, playerId) ==
    endGame([m EXCEPT
                !.playerSockets = @ \ {playerId},
                !.gameState.winnerId = getOpponentPlayerState(m.gameState, playerId).id,
                !.gameState.gameStatus = "win"])

handlePlayerDisconnect(m, playerId) ==
    IF m.gameState.gameStatus = "playing"
    THEN endGame([m EXCEPT
                    !.playerSockets = @ \ {playerId},
                    !.gameState.winnerId = getOpponentPlayerState(m.gameState, playerId).id,
                    !.gameState.gameStatus = "win"])
    ELSE [m EXCEPT !.playerSockets = @ \ {playerId}]

\* (variant: the reconnecting player is sent a patch like any other update)
handlePlayerReconnectSendsPatch(m, playerId) ==
    SendPatch([m EXCEPT !.playerSockets = @ \cup {playerId}], playerId)

handlePlayerReconnect(m, playerId) ==
    [Emit(m, playerId, "game:stateUpdate", getClientGameState(m.gameState, playerId)) EXCEPT
        !.playerSockets = @ \cup {playerId},
        !.lastPlayerStates[playerId] = <<getClientGameState(m.gameState, playerId)>>]

----------------------------------------------------------------------------
(* The match as a state machine *)

\* Date.now() at the match's creation, drawn from a few values.
Seeds == {181}

\* An instance id no card was minted with.
NotACard == MaxCarsInDeck + MaxActionsInDeck + 1

\* A property name every JavaScript object inherits, sent as the metric.
InheritedKey == "toString"

\* The cards a client submits: any action card of the hand, the first car of
\* the hand, or a card that is not in the hand.
ActionIdsIn(hand) == {hand[i].instanceId : i \in {j \in 1..Len(hand) : ~IsCarInstance(hand[j])}}
FirstCarIdIn(hand) ==
    LET cars == CarCardsIn(hand)
    IN  IF Len(cars) = 0 THEN {} ELSE {cars[1].instanceId}
SubmittedCards(state, playerId) ==
    LET hand == getPlayerState(state, playerId).hand
    IN  ActionIdsIn(hand) \cup FirstCarIdIn(hand) \cup {NotACard}

Payloads == {[selectedMetric |-> x] : x \in Metrics \cup {Undefined, InheritedKey}}

Manager ==
    [gameState |-> gameState, lastPlayerStates |-> lastPlayerStates,
     playerSockets |-> playerSockets, botIds |-> botIds, botTimers |-> botTimers,
     turnTimer |-> turnTimer,
     advanceTimers |-> advanceTimers, resolveTimers |-> resolveTimers,
     emitted |-> <<>>, gameEnds |-> gameEnds, running |-> running]

Install(m) ==
    /\ gameState' = m.gameState
    /\ lastPlayerStates' = m.lastPlayerStates
    /\ playerSockets' = m.playerSockets
    /\ botIds' = m.botIds
    /\ botTimers' = m.botTimers
    /\ turnTimer' = m.turnTimer
    /\ advanceTimers' = m.advanceTimers
    /\ resolveTimers' = m.resolveTimers
    /\ gameEnds' = m.gameEnds
    /\ running' = m.running
    /\ UNCHANGED <<serverVars, authenticated, clock>>

\* The listeners of a player's socket are attached until the manager is destroyed.
Listening(p) == running /\ gameEnds = 0 /\ p \in playerSockets

ResolvedPhases == {"round_resolved", "must_discard"}

\* constructor and startGame, for the value Date.now() gave and the players
\* that are bots: a human is registered with a socket and sent the first view.
StartMatchWith(seed, bots) ==
    /\ gameState = initializeGame(PlayerIds, seed, TurnTimeLimitSeconds * 1000)
    /\ lastPlayerStates = [p \in Players |->
                              IF p \in bots THEN <<>>
                              ELSE <<getClientGameState(gameState, p)>>]
    /\ playerSockets = Players \ bots
    /\ botIds = bots
    /\ botTimers = 0
    /\ turnTimer = TRUE
    /\ advanceTimers = 0
    /\ resolveTimers = 0
    /\ gameEnds = 0
    /\ running = TRUE
    /\ rounds = 0
    /\ playersInLobby = <<>>
    /\ aiSpawnTimer = <<>>
    /\ botCounter = Cardinality(bots)
    /\ activeGames = [g \in {1} |-> PlayerIds]
    /\ playerToGameMap = [p \in Players |-> 1]
    /\ gamesCreated = 1
    /\ authenticated = Players \ bots
    /\ clock = 0

\* A match of two human players.
StartMatch(seed) == StartMatchWith(seed, {})

Init == \E seed \in Seeds : StartMatch(seed)

\* No action card has left the hands and the draw pile yet.
ActionCardsIn(cards) == SelectSeq(cards, LAMBDA c : ~IsCarInstance(c))
NoActionPlayed(state) ==
    Len(ActionCardsIn(state.players[1].hand)) + Len(ActionCardsIn(state.players[2].hand))
        + Len(ActionCardsIn(state.drawPile)) = MaxActionsInDeck

\* The plays the exploration follows: every play of the first MaxRounds rounds,
\* and car plays up to MaxCarRounds rounds in a match without action cards.
Followed(p, cardInstanceId) ==
    \/ rounds < MaxRounds
    \/ /\ rounds < MaxCarRounds
       /\ NoActionPlayed(gameState)
       /\ cardInstanceId \in FirstCarIdIn(getPlayerState(gameState, p).hand)

\* socket.on('game:playCard')
PlayCard(p, cardInstanceId, payload) ==
    /\ Listening(p)
    /\ \E m \in {handlePlayerMove(Manager, p,
                                  [cardInstanceId |-> cardInstanceId, payload |-> payload])} :
          /\ (m.gameState # gameState \/ ~m.running) => Followed(p, cardInstanceId)
          /\ Install(m)
          /\ rounds' = IF /\ m.gameState.currentPlayerPhase \in ResolvedPhases
                          /\ gameState.currentPlayerPhase \notin ResolvedPhases
                       THEN rounds + 1
                       ELSE rounds

\* socket.on('game:advanceTurn')
AdvanceTurnRequest(p) ==
    /\ Listening(p)
    /\ Install(handleAdvanceTurn(Manager))
    /\ UNCHANGED rounds

\* The callback updateState scheduled 1500 ms after a round was resolved.
AutoAdvance ==
    /\ running
    /\ advanceTimers > 0
    /\ Install(handleAdvanceTurn([Manager EXCEPT !.advanceTimers = @ - 1]))
    /\ UNCHANGED rounds

\* The turn timer fires.
TurnTimeout ==
    /\ running
    /\ turnTimer
    /\ Install(handleTimeout([Manager EXCEPT !.turnTimer = FALSE]))
    /\ UNCHANGED rounds

\* socket.on('disconnect') of a player whose match is still registered
Disconnect(p) ==
    /\ running
    /\ gameEnds = 0
    /\ Install(handlePlayerDisconnect(Manager, p))
    /\ UNCHANGED rounds

\* socket.on('auth:authenticate') of a player whose match is still registered
Reconnect(p) ==
    /\ running
    /\ gameEnds = 0
    /\ Install(handlePlayerReconnect(Manager, p))
    /\ UNCHANGED rounds

Next ==
    \/ \E p \in Players :
          \E cardInstanceId \in SubmittedCards(gameState, p) :
             \E payload \in Payloads : PlayCard(p, cardInstanceId, payload)
    \/ \E p \in Players : AdvanceTurnRequest(p)
    \/ AutoAdvance
    \/ TurnTimeout
    \/ \E p \in Players \ botIds : Disconnect(p)
    \/ \E p \in Players \ botIds : Reconnect(p)

Spec == Init /\ [][Next]_vars

\* A match created at another moment: the second player is dealt two cars and
\* five action cards: both boosts, the weight penalty, the override and the extra turn.
OtherSeeds == {6057}

InitOther == \E seed \in OtherSeeds : StartMatch(seed)

SpecOther == InitOther /\ [][Next]_vars

\* The callback updateState scheduled 1500 ms after the turn came to a bot,
\* for the metric Math.random() picks.
BotMove(randomMetric) ==
    /\ running
    /\ botTimers > 0
    /\ \E m \in {triggerBotMove([Manager EXCEPT !.botTimers = @ - 1], randomMetric)} :
          /\ (m.gameState # gameState \/ ~m.running)
                => /\ rounds < MaxCarRounds
                   /\ rounds < MaxRounds \/ NoActionPlayed(gameState)
          /\ Install(m)
          /\ rounds' = IF /\ m.gameState.currentPlayerPhase \in ResolvedPhases
                          /\ gameState.currentPlayerPhase \notin ResolvedPhases
                       THEN rounds + 1
                       ELSE rounds

\* A match of a human first player against a bot.
InitBot == \E seed \in Seeds : StartMatchWith(seed, {P2})

NextBot ==
    \/ Next
    \/ \E randomMetric \in Metrics : BotMove(randomMetric)

SpecBot == InitBot /\ [][NextBot]_vars

\* A match created at either moment.
InitEither == \E seed \in Seeds \cup OtherSeeds : StartMatch(seed)
SpecEither == InitEither /\ [][Next]_vars

----------------------------------------------------------------------------
(* MatchmakingManager and the registries of the server.  A server value s   *)
(* holds the lobby, the AI-spawn timer, the bot counter and the two maps    *)
(* of index.ts and, in s.emitted, what the handler sent; every method is a  *)
(* function from the server before to the server after, for the value       *)
(* Date.now() gives.  A lobby entry's username is its user id and its       *)
(* socket is the user's; a bot's absent humanOnly field reads as FALSE.     *)

maxPlayersPerMatch == 2
aiEnabled == TRUE
aiDelayMs == 500
humanOnlyMaxWaitMs == 8000

\* The ids clients authenticate with; the last is also the id of the first bot.
Users == {"u1", "u2", "bot-1"}

Everyone == "all"
Listener == "match-found listener"

PlayerInLobby(userId, joinedAt, isBot, humanOnly) ==
    [userId |-> userId, username |-> userId, joinedAt |-> joinedAt,
     isBot |-> isBot, humanOnly |-> humanOnly]

Server ==
    [playersInLobby |-> playersInLobby, aiSpawnTimer |-> aiSpawnTimer,
     botCounter |-> botCounter, activeGames |-> activeGames,
     playerToGameMap |-> playerToGameMap, gamesCreated |-> gamesCreated,
     emitted |-> <<>>]

\* A call whose argument is evaluated once, before the method is entered.
Call(Method(_), argument) == CHOOSE result \in {Method(x) : x \in {argument}} : TRUE

\* Map.has, Map.set and Map.delete on the insertion-ordered playersInLobby
LobbyIds(lobby) == {lobby[i].userId : i \in DOMAIN lobby}
LobbySet(lobby, entry) ==
    IF entry.userId \in LobbyIds(lobby)
    THEN [i \in DOMAIN lobby |-> IF lobby[i].userId = entry.userId THEN entry ELSE lobby[i]]
    ELSE Append(lobby, entry)
LobbyDelete(lobby, userId) == SelectSeq(lobby, LAMBDA p : p.userId # userId)

broadcastLobbyUpdate(s) ==
    Emit(s, Everyone, "lobby:update",
         [players |-> [i \in DOMAIN s.playersInLobby |->
                          [username |-> s.playersInLobby[i].username,
                           isBot |-> s.playersInLobby[i].isBot]],
          playerCount |-> Len(s.playersInLobby)])

HumansIn(lobby) == SelectSeq(lobby, LAMBDA p : ~p.isBot)
BotsIn(lobby) == SelectSeq(lobby, LAMBDA p : p.isBot)

EarliestJoin(ps) ==
    CHOOSE t \in {ps[i].joinedAt : i \in DOMAIN ps} : \A i \in DOMAIN ps : t <= ps[i].joinedAt

\* Some waiting human asked for human opponents only and the one of them who
\* joined first has waited less than humanOnlyMaxWaitMs.
WithinGrace(humanOnlyPlayers, now) ==
    /\ Len(humanOnlyPlayers) > 0
    /\ (IF now - EarliestJoin(humanOnlyPlayers) > 0
        THEN now - EarliestJoin(humanOnlyPlayers) ELSE 0) < humanOnlyMaxWaitMs

scheduleAISpawnIgnoresPreference(s, now) ==
    IF ~aiEnabled \/ s.aiSpawnTimer # <<>> THEN s
    ELSE IF Len(HumansIn(s.playersInLobby)) > 0 /\ Len(s.playersInLobby) < maxPlayersPerMatch
         THEN [s EXCEPT !.aiSpawnTimer = <<now + aiDelayMs>>]
         ELSE s
scheduleAISpawn(s, now) ==
    IF ~aiEnabled \/ s.aiSpawnTimer # <<>> THEN s
    ELSE IF WithinGrace(SelectSeq(HumansIn(s.playersInLobby), LAMBDA p : p.humanOnly), now) THEN s
    ELSE IF Len(HumansIn(s.playersInLobby)) > 0 /\ Len(s.playersInLobby) < maxPlayersPerMatch
         THEN [s EXCEPT !.aiSpawnTimer = <<now + aiDelayMs>>]
         ELSE s

\* Array.prototype.sort by joinedAt: stable, so equal instants keep their order.
RECURSIVE InsertByJoinedAt(_, _)
InsertByJoinedAt(sorted, p) ==
    IF sorted = <<>> THEN <<p>>
    ELSE IF sorted[Len(sorted)].joinedAt <= p.joinedAt THEN Append(sorted, p)
    ELSE Append(InsertByJoinedAt(SubSeq(sorted, 1, Len(sorted) - 1), p), sorted[Len(sorted)])
RECURSIVE SortByJoinedAt(_)
SortByJoinedAt(ps) ==
    IF ps = <<>> THEN <<>>
    ELSE InsertByJoinedAt(SortByJoinedAt(SubSeq(ps, 1, Len(ps) - 1)), ps[Len(ps)])

Slice(arr, n) == SubSeq(arr, 1, IF Len(arr) < n THEN Len(arr) ELSE n)

PlayersForMatchInLobbyOrder(lobby) ==
    Slice(lobby, maxPlayersPerMatch)
PlayersForMatch(lobby) ==
    IF Len(HumansIn(lobby)) >= maxPlayersPerMatch
    THEN Slice(SortByJoinedAt(HumansIn(lobby)), maxPlayersPerMatch)
    ELSE Slice(SortByJoinedAt(HumansIn(lobby)) \o SortByJoinedAt(BotsIn(lobby)), maxPlayersPerMatch)

\* matchmakingManager.on('match-found'): the new GameManager and both players
\* are registered under a fresh game id.
Registered(map, keys, value) ==
    [k \in DOMAIN map \cup keys |-> IF k \in keys THEN value ELSE map[k]]
OnMatchFound(s, players) ==
    [s EXCEPT !.gamesCreated = @ + 1,
              !.activeGames = Registered(@, {s.gamesCreated + 1},
                                         [i \in DOMAIN players |-> players[i].userId]),
              !.playerToGameMap = Registered(@, LobbyIds(players), s.gamesCreated + 1)]

\* The callback given to a GameManager, run by its endGame.
Unregistered(map, keys) == [k \in DOMAIN map \ keys |-> map[k]]
onGameEnd(s, endedGameId) ==
    IF endedGameId \in DOMAIN s.activeGames
    THEN [s EXCEPT !.playerToGameMap =
                       Unregistered(@, {s.activeGames[endedGameId][i] :
                                           i \in DOMAIN s.activeGames[endedGameId]}),
                   !.activeGames = Unregistered(@, {endedGameId})]
    ELSE s

RECURSIVE checkForMatch(_, _)
AgainIfEnough(s, now) ==
    IF Len(s.playersInLobby) >= maxPlayersPerMatch THEN checkForMatch(s, now) ELSE s
RemoveMatched(s, playersForMatch) ==
    [s EXCEPT !.playersInLobby =
                  SelectSeq(@, LAMBDA p : p.userId \notin LobbyIds(playersForMatch))]
AnnounceMatch(s, playersForMatch) ==
    Call(broadcastLobbyUpdate,
         Call(LAMBDA x : OnMatchFound(x, playersForMatch),
              Emit(s, Listener, "match-found", [players |-> playersForMatch])))
EmitMatch(s, playersForMatch, now) ==
    Call(LAMBDA x : AgainIfEnough(x, now),
         AnnounceMatch(RemoveMatched(s, playersForMatch), playersForMatch))
checkForMatch(s, now) ==
    IF Len(s.playersInLobby) < maxPlayersPerMatch
    THEN scheduleAISpawn(s, now)
    ELSE Call(LAMBDA players : EmitMatch([s EXCEPT !.aiSpawnTimer = <<>>], players, now),
              PlayersForMatch(s.playersInLobby))

BotId(n) == "bot-" \o ToString(n)

spawnAIBot(s, now) ==
    IF Len(s.playersInLobby) = 0 \/ Len(s.playersInLobby) >= maxPlayersPerMatch
    THEN [s EXCEPT !.aiSpawnTimer = <<>>]
    ELSE Call(LAMBDA x : checkForMatch(x, now),
              Call(broadcastLobbyUpdate,
                   [s EXCEPT !.aiSpawnTimer = <<>>,
                             !.botCounter = @ + 1,
                             !.playersInLobby =
                                 LobbySet(@, PlayerInLobby(BotId(s.botCounter + 1), now, TRUE, FALSE))]))

joinLobbyUnchecked(s, userId, humanOnly, now) ==
    Call(LAMBDA x : checkForMatch(x, now),
         Call(broadcastLobbyUpdate,
              Emit([s EXCEPT !.playersInLobby =
                        LobbySet(@, PlayerInLobby(userId, now, FALSE, humanOnly))],
                   userId, "matchmaking:joined", [message |-> "Sikeresen csatlakoztal a lobbyba!"])))
joinLobby(s, userId, humanOnly, now) ==
    IF userId \in LobbyIds(s.playersInLobby)
    THEN Emit(s, userId, "matchmaking:error", [message |-> "Mar a lobbyban vagy!"])
    ELSE Call(LAMBDA x : checkForMatch(x, now),
              Call(broadcastLobbyUpdate,
                   Emit([s EXCEPT !.playersInLobby =
                             LobbySet(@, PlayerInLobby(userId, now, FALSE, humanOnly))],
                        userId, "matchmaking:joined", [message |-> "Sikeresen csatlakoztal a lobbyba!"])))

leaveLobby(s, userId) ==
    IF userId \notin LobbyIds(s.playersInLobby) THEN s
    ELSE broadcastLobbyUpdate(
             [s EXCEPT !.playersInLobby = LobbyDelete(@, userId),
                       !.aiSpawnTimer = IF Len(LobbyDelete(s.playersInLobby, userId)) = 0
                                        THEN <<>> ELSE @])

\* socket.on('matchmaking:join') of the socket of userId; identified holds the
\* users whose socket carries socket.data.userId.
matchmakingJoin(s, identified, userId, humanOnly, now) ==
    IF userId \notin identified
    THEN Emit(s, userId, "error:auth", [message |-> "Authentikacio szukseges."])
    ELSE IF userId \in DOMAIN s.playerToGameMap
    THEN Emit(s, userId, "matchmaking:error", [message |-> "Mar egy futo jatekban vagy!"])
    ELSE joinLobby(s, userId, humanOnly, now)

\* socket.on('disconnect'): the user leaves the lobby; a registered match of the
\* user is a playing one, which handlePlayerDisconnect ends.
socketDisconnect(s, userId) ==
    IF userId \in DOMAIN s.playerToGameMap
    THEN Call(LAMBDA x : onGameEnd(x, s.playerToGameMap[userId]), leaveLobby(s, userId))
    ELSE leaveLobby(s, userId)

InstallServer(s) ==
    /\ playersInLobby' = s.playersInLobby
    /\ aiSpawnTimer' = s.aiSpawnTimer
    /\ botCounter' = s.botCounter
    /\ activeGames' = s.activeGames
    /\ playerToGameMap' = s.playerToGameMap
    /\ gamesCreated' = s.gamesCreated

\* The server after start-up: nobody waits, no match is registered.
InitLobby ==
    /\ playersInLobby = <<>>
    /\ aiSpawnTimer = <<>>
    /\ botCounter = 0
    /\ activeGames = [g \in {} |-> <<>>]
    /\ playerToGameMap = [k \in {} |-> 0]
    /\ gamesCreated = 0
    /\ authenticated = {}
    /\ clock = 0
    /\ gameState = Null
    /\ lastPlayerStates = <<>>
    /\ playerSockets = {}
    /\ botIds = {}
    /\ botTimers = 0
    /\ turnTimer = FALSE
    /\ advanceTimers = 0
    /\ resolveTimers = 0
    /\ gameEnds = 0
    /\ running = TRUE
    /\ rounds = 0

\* socket.on('auth:authenticate') of a user without a registered match
Authenticate(userId) ==
    /\ userId \notin authenticated
    /\ authenticated' = authenticated \cup {userId}
    /\ UNCHANGED <<serverVars, clock, gameVars>>

\* socket.on('matchmaking:join')
Join(userId, humanOnly) ==
    /\ \E s \in {matchmakingJoin(Server, authenticated, userId, humanOnly, clock)} :
          /\ s.playersInLobby # playersInLobby
                => clock <= MaxTime /\ gamesCreated < MaxGames
          /\ InstallServer(s)
    /\ UNCHANGED <<authenticated, clock, gameVars>>

\* socket.on('matchmaking:cancel')
Cancel(userId) ==
    /\ userId \in authenticated
    /\ InstallServer(leaveLobby(Server, userId))
    /\ UNCHANGED <<authenticated, clock, gameVars>>

\* socket.on('disconnect') of an identified socket
SocketDisconnect(userId) ==
    /\ userId \in authenticated
    /\ InstallServer(socketDisconnect(Server, userId))
    /\ authenticated' = authenticated \ {userId}
    /\ UNCHANGED <<clock, gameVars>>

\* A registered match ends by its own rules and its manager runs onGameEnd.
GameEnds(gameId) ==
    /\ gameId \in DOMAIN activeGames
    /\ InstallServer(onGameEnd(Server, gameId))
    /\ UNCHANGED <<authenticated, clock, gameVars>>

\* The callback scheduleAISpawn scheduled aiDelayMs earlier.
AISpawnFires ==
    /\ aiSpawnTimer # <<>>
    /\ clock >= aiSpawnTimer[1]
    /\ \E s \in {spawnAIBot(Server, clock)} : InstallServer(s)
    /\ UNCHANGED <<authenticated, clock, gameVars>>

\* Time passes; the clock is followed to MaxTime and to the instant a pending
\* callback is due.
Tick ==
    /\ clock < MaxTime \/ (aiSpawnTimer # <<>> /\ clock < aiSpawnTimer[1])
    /\ clock' = clock + TickMs
    /\ UNCHANGED <<serverVars, authenticated, gameVars>>

NextLobby ==
    \/ \E userId \in Users : Authenticate(userId)
    \/ \E userId \in Users : \E humanOnly \in BOOLEAN : Join(userId, humanOnly)
    \/ \E userId \in Users : Cancel(userId)
    \/ \E userId \in Users : SocketDisconnect(userId)
    \/ \E gameId \in 1..MaxGames : GameEnds(gameId)
    \/ AISpawnFires
    \/ Tick

SpecLobby == InitLobby /\ [][NextLobby]_vars

\* Node runs a due callback, and time does not stop.
SpecLobbyFair == SpecLobby /\ WF_vars(AISpawnFires) /\ WF_vars(Tick)


----------------------------------------------------------------------------
(* Vocabulary of the properties *)

\* Every card instance of a state, location by location.
AllCards(state) ==
    state.players[1].hand \o state.players[2].hand
        \o state.carCardsOnBoard[P1] \o state.carCardsOnBoard[P2]
        \o state.activeActionCardsOnBoard[P1] \o state.activeActionCardsOnBoard[P2]
        \o state.discardPile \o state.drawPile

IdsOf(cards) == {cards[i].instanceId : i \in 1..Len(cards)}

\* The instance ids initializeGame mints: one per card of the deck.
MintedIds == 1..(MaxCarsInDeck + MaxActionsInDeck)

TotalHandSize(state) == Len(state.players[1].hand) + Len(state.players[2].hand)

OtherPlayer(p) == IF p = P1 THEN P2 ELSE P1

\* The game:playCard inputs of this state: sender, card, payload.
InputsOf(p) == {<<p, c, payload>> : c \in SubmittedCards(gameState, p), payload \in Payloads}
Inputs == InputsOf(P1) \cup InputsOf(P2)

\* The inputs handlePlayerMove hands to performPlay.
PlayInputs ==
    IF gameState.gameStatus = "playing" THEN InputsOf(gameState.currentPlayerId) ELSE {}

\* The inputs whose car fills the board, with the state at line 721 of the engine.
BoardFilling ==
    {i \in PlayInputs :
        LET placed == PlaceCard(gameState, i[1], i[2], i[3])
        IN  placed.success /\ BothCarsOnBoard(placed.newState)}
FilledBoard(i) == PlaceCard(gameState, i[1], i[2], i[3]).newState

----------------------------------------------------------------------------
(* C1: card conservation.  In every reachable state the instance ids found  *)
(* across both hands, both car slots, both action slots, the discard pile   *)
(* and the draw pile are exactly the ids minted at initialization; an       *)
(* action card played in a round is still somewhere after the round.        *)
C1_CardConservation == IdsOf(AllCards(gameState)) = MintedIds

(* C2: no duplication.  In every state reachable through the orchestrator   *)
(* no instance id occurs in two locations or twice in one location.         *)
C2_NoDuplication == Cardinality(IdsOf(AllCards(gameState))) = Len(AllCards(gameState))

\* A round was won after a card had been dropped to the discard pile.
C2_Witness ==
    /\ rounds > 0
    /\ gameState.roundWinnerId # Null
    /\ Len(gameState.discardPile) > 0

(* C3: the second car play of a round.  When the current player plays a car *)
(* while the opponent's car is on the board, the state performPlay returns  *)
(* has phase both_cards_on_board, status playing, no winner and both car    *)
(* slots filled.                                                            *)
C3_SecondCarStaysOnBoard ==
    \A i \in PlayInputs :
        LET result == performPlay(gameState, i[1], i[2], i[3])
        IN  (/\ i[2] \in FirstCarIdIn(getPlayerState(gameState, i[1]).hand)
             /\ gameState.carCardsOnBoard[OtherPlayer(i[1])] # <<>>
             /\ result.success)
            => /\ result.newState.currentPlayerPhase = "both_cards_on_board"
               /\ result.newState.gameStatus = "playing"
               /\ result.newState.winnerId = Null
               /\ BothCarsOnBoard(result.newState)

\* resolveRound, then advanceTurn with the round's winner.
ResolveThenAdvance(state) ==
    LET resolved == resolveRound(state).state
    IN  advanceTurn(resolved, resolved.roundWinnerId)

\* What C4 says of the state after both calls, apart from the hand sizes.
RoundClosed(state) ==
    /\ state.carCardsOnBoard[P1] = <<>> /\ state.carCardsOnBoard[P2] = <<>>
    /\ state.selectedMetricForRound = Null
    /\ state.currentPlayerPhase = "waiting_for_initial_play"

(* C4, as amended: from a state with both cars on the board, resolveRound   *)
(* then advanceTurn gives empty car slots, no selected metric, phase        *)
(* waiting_for_initial_play, and a total hand size of the total before the  *)
(* resolution plus 2, whether the round was won or tied.                    *)
C4_ResolveThenAdvance ==
    \A i \in BoardFilling :
        /\ ~resolveRound(FilledBoard(i)).threw
        /\ RoundClosed(ResolveThenAdvance(FilledBoard(i)))
        /\ TotalHandSize(ResolveThenAdvance(FilledBoard(i))) = TotalHandSize(FilledBoard(i)) + 2

(* C4, as written: ... plus 2 if the round has a winner, unchanged if the   *)
(* round is tied.                                                           *)
C4_TieLeavesTotalUnchanged ==
    \A i \in BoardFilling :
        /\ RoundClosed(ResolveThenAdvance(FilledBoard(i)))
        /\ TotalHandSize(ResolveThenAdvance(FilledBoard(i))) =
              IF resolveRound(FilledBoard(i)).state.roundWinnerId # Null
              THEN TotalHandSize(FilledBoard(i)) + 2
              ELSE TotalHandSize(FilledBoard(i))

\* The second car of a round is about to tie it.
C4_Witness ==
    \E i \in BoardFilling :
        /\ resolveRound(FilledBoard(i)).state.roundWinnerId = Null
        /\ TotalHandSize(ResolveThenAdvance(FilledBoard(i))) = TotalHandSize(FilledBoard(i)) + 2

\* performPlay returned a failure object.
Rejects(state, p, c, payload) ==
    LET result == performPlay(state, p, c, payload)
    IN  ~result.success /\ ~result.threw

MoveOf(i) == [cardInstanceId |-> i[2], payload |-> i[3]]

(* C5: a game:playCard input that is not applied leaves the authoritative   *)
(* state unchanged: when the sender is not the current player, when the     *)
(* game is not playing, and when performPlay rejects; in the last case the  *)
(* state passed to performPlay is unmodified and one game:error goes to the *)
(* sender and nothing to anyone else.                                       *)
C5_UnappliedPlayChangesNothing ==
    \A i \in Inputs :
        LET m == handlePlayerMove(Manager, i[1], MoveOf(i))
            result == performPlay(gameState, i[1], i[2], i[3])
            admitted == gameState.currentPlayerId = i[1] /\ gameState.gameStatus = "playing"
        IN  IF ~admitted
            THEN m.gameState = gameState
            ELSE (~result.success /\ ~result.threw)
                    => /\ m.gameState = gameState
                       /\ result.newState = gameState
                       /\ i[1] \in playerSockets
                             => m.emitted = <<Message(i[1], "game:error", [message |-> result.message])>>

\* The current player, having played an action card, submits another card of
\* the hand that is rejected, while the opponent submits a card as well.
C5_Witness ==
    /\ gameState.currentPlayerPhase = "waiting_for_car_card_after_action"
    /\ \E i \in PlayInputs :
          /\ i[2] # NotACard
          /\ Rejects(gameState, i[1], i[2], i[3])
          /\ handlePlayerMove(Manager, i[1], MoveOf(i)).emitted # <<>>
    /\ \E i \in Inputs :
          /\ i[1] # gameState.currentPlayerId
          /\ performPlay(gameState, i[1], i[2], i[3]).success

HandOf(p) == getPlayerState(gameState, p).hand
IsCarOf(p, c) == c \in IdsOf(CarCardsIn(HandOf(p)))
IsActionOf(p, c) == c \in IdsOf(ActionCardsIn(HandOf(p)))
PendingOverride(p) ==
    /\ gameState.pendingMetricModifiers[p] # <<>>
    /\ gameState.pendingMetricModifiers[p][1].effect.type = "override_metric"
PermittedMetrics(p) == DOMAIN gameState.pendingMetricModifiers[p][1].effect.availableMetrics

\* The first four cases of C6.
C6_ValidationCases(i) ==
    \/ i[2] \notin IdsOf(HandOf(i[1]))
    \/ IsActionOf(i[1], i[2]) /\ gameState.currentPlayerPhase # "waiting_for_initial_play"
    \/ /\ IsCarOf(i[1], i[2])
       /\ gameState.currentPlayerPhase \notin
             {"waiting_for_initial_play", "waiting_for_car_card_after_action"}
    \/ /\ IsCarOf(i[1], i[2])
       /\ gameState.selectedMetricForRound = Null
       /\ i[3].selectedMetric = Undefined

\* The fifth: a pending override_metric and no metric of its permitted set.
C6_OverrideCase(i) ==
    /\ PendingOverride(i[1])
    /\ i[3].selectedMetric \notin PermittedMetrics(i[1])

(* C6: performPlay rejects a play when the instance is not in the player's  *)
(* hand; when it is an action card outside waiting_for_initial_play; when   *)
(* it is a car outside the two waiting phases; when it is the round's first *)
(* car and no metric is selected; and when the player has a pending         *)
(* override_metric and the payload has no metric of the permitted set.      *)
C6_InvalidPlaysRejected ==
    \A i \in Inputs :
        (C6_ValidationCases(i) \/ C6_OverrideCase(i)) => Rejects(gameState, i[1], i[2], i[3])

\* The first four cases alone.
FirstFourCasesRejected ==
    \A i \in Inputs : C6_ValidationCases(i) => Rejects(gameState, i[1], i[2], i[3])

\* The winner C7 names for two values of a metric.
NamedWinner(metric, v1, v2) ==
    CASE metric \in {"weight", "accel"} ->
            IF v1 < v2 THEN P1 ELSE IF v2 < v1 THEN P2 ELSE Null
      [] metric \in {"speed", "hp", "year"} ->
            IF v1 > v2 THEN P1 ELSE IF v2 > v1 THEN P2 ELSE Null

BoardValue(state, p) == state.carCardsOnBoard[p][1].currentMetrics[state.selectedMetricForRound]

(* C7: round resolution compares the two board cars' current values of the  *)
(* selected metric: for weight and accel the strictly lower value wins, for *)
(* speed, hp and year the strictly higher, and equal values leave           *)
(* roundWinnerId null.                                                      *)
C7_WinnerRule ==
    \A i \in BoardFilling :
        FilledBoard(i).selectedMetricForRound \in Metrics
        => LET expected == NamedWinner(FilledBoard(i).selectedMetricForRound,
                                       BoardValue(FilledBoard(i), P1),
                                       BoardValue(FilledBoard(i), P2))
           IN  /\ resolveRound(FilledBoard(i)).state.roundWinnerId = expected
               /\ performPlay(gameState, i[1], i[2], i[3]).newState.roundWinnerId = expected

\* A round on accel is about to be won by the car with the lower value.
C7_Witness ==
    \E i \in BoardFilling :
        /\ FilledBoard(i).selectedMetricForRound = "accel"
        /\ BoardValue(FilledBoard(i), P1) < BoardValue(FilledBoard(i), P2)
        /\ performPlay(gameState, i[1], i[2], i[3]).newState.roundWinnerId = P1

Score(state, p) == getPlayerState(state, p).score
Hand(state, p) == getPlayerState(state, p).hand
BoardCar(state, p) == state.carCardsOnBoard[p][1]

\* What C8 says of the state `after` that resolved the board of `before`.
Settled(before, after) ==
    LET W == after.roundWinnerId
        L == OtherPlayer(W)
    IN  /\ after.carCardsOnBoard = NoSlots
        /\ after.activeActionCardsOnBoard = NoSlots
        /\ IF W # Null
           THEN /\ Hand(after, W) = Hand(before, W) \o <<BoardCar(before, W), BoardCar(before, L)>>
                /\ Hand(after, L) = Hand(before, L)
                /\ Score(after, W) = Score(before, W) + 1
                /\ Score(after, L) = Score(before, L)
           ELSE \A p \in Players :
                    /\ Hand(after, p) = Append(Hand(before, p), BoardCar(before, p))
                    /\ Score(after, p) = Score(before, p)

(* C8: after a round resolves with a winner W, both board cars are appended *)
(* to W's hand, W's score grows by exactly 1 and the other score is         *)
(* unchanged; after a tie each car is back in the hand of its player and no *)
(* score changes; either way the car slots and the action slots are null.   *)
C8_AfterResolution ==
    \A i \in BoardFilling :
        LET result == performPlay(gameState, i[1], i[2], i[3])
        IN  /\ result.success
            /\ Settled(FilledBoard(i), result.newState)
            /\ Settled(FilledBoard(i), resolveRound(FilledBoard(i)).state)

\* A round with an action card on the board is about to be won.
C8_Witness ==
    \E i \in BoardFilling :
        /\ FilledBoard(i).activeActionCardsOnBoard # NoSlots
        /\ performPlay(gameState, i[1], i[2], i[3]).newState.roundWinnerId # Null
        /\ Settled(FilledBoard(i), performPlay(gameState, i[1], i[2], i[3]).newState)

\* Every card a player could name, with every payload.
AnyPlayOf(p) == {<<p, c, payload>> : c \in IdsOf(HandOf(p)) \cup {NotACard}, payload \in Payloads}

(* C9: whenever a round resolution leaves the winner with more than 10      *)
(* cards, the phase is must_discard and the current player is the winner,   *)
(* otherwise the phase is round_resolved; while the phase is must_discard   *)
(* every car or action play of any player is rejected.                      *)
C9_HandCap ==
    /\ \A i \in BoardFilling :
          LET after == performPlay(gameState, i[1], i[2], i[3]).newState
              W == after.roundWinnerId
          IN  IF W # Null /\ Len(Hand(after, W)) > 10
              THEN after.currentPlayerPhase = "must_discard" /\ after.currentPlayerId = W
              ELSE after.currentPlayerPhase = "round_resolved"
    /\ gameState.currentPlayerPhase = "must_discard"
          => \A i \in AnyPlayOf(P1) \cup AnyPlayOf(P2) : Rejects(gameState, i[1], i[2], i[3])

\* The round's winner holds more than 10 cards and the match goes on.
C9_Witness ==
    /\ gameState.currentPlayerPhase = "must_discard"
    /\ gameState.gameStatus = "playing"
    /\ gameState.currentPlayerId = gameState.roundWinnerId
    /\ Len(HandOf(gameState.currentPlayerId)) > 10

\* What the manager becomes on each thing a client can send.
ClientResponses ==
    {handlePlayerMove(Manager, i[1], MoveOf(i)) : i \in AnyPlayOf(P1) \cup AnyPlayOf(P2)}
        \cup {handleAdvanceTurn(Manager)}

(* C10: the must_discard phase can be left by a discard: the current player *)
(* can give up one card of the hand, after which the phase is               *)
(* round_resolved and the match continues; the turn timer is not the only   *)
(* way out.                                                                 *)
C10_DiscardLeavesMustDiscard ==
    (gameState.currentPlayerPhase = "must_discard" /\ gameState.gameStatus = "playing")
    => \E m \in ClientResponses :
          /\ m.gameState.currentPlayerPhase = "round_resolved"
          /\ m.gameState.gameStatus = "playing"
          /\ Len(Hand(m.gameState, gameState.currentPlayerId))
                = Len(HandOf(gameState.currentPlayerId)) - 1

\* A round has just been resolved and the match goes on.
PostResolution == gameState.gameStatus = "playing" /\ gameState.currentPlayerPhase \in ResolvedPhases

\* The player C11 names as the next one, for the winner handed to advanceTurn.
NamedNextPlayer(state, roundWinnerId) ==
    IF state.extraTurnPlayerId # Null THEN state.extraTurnPlayerId
    ELSE IF roundWinnerId # Null THEN roundWinnerId
    ELSE OtherPlayer(state.currentPlayerId)

(* C11: on a playing post-resolution state advanceTurn makes the next       *)
(* current player the extraTurnPlayerId if one is set (and clears it),      *)
(* whoever won the round; otherwise the round winner; otherwise the         *)
(* opponent of the current player.  The result has phase                    *)
(* waiting_for_initial_play, no selected metric and no round winner; the    *)
(* orchestrator's advance gives the same current player.                    *)
C11_NextPlayer ==
    PostResolution =>
        /\ \A w \in Players \cup {Null} :
              LET next == advanceTurn(gameState, w)
              IN  /\ next.currentPlayerId = NamedNextPlayer(gameState, w)
                  /\ next.extraTurnPlayerId = Null
                  /\ next.currentPlayerPhase = "waiting_for_initial_play"
                  /\ next.selectedMetricForRound = Null
                  /\ next.roundWinnerId = Null
        /\ gameState.currentPlayerPhase = "round_resolved"
              => handleAdvanceTurn(Manager).gameState.currentPlayerId
                    = NamedNextPlayer(gameState, gameState.roundWinnerId)

\* The player with the extra turn has lost the round to the other player.
C11_Witness ==
    /\ PostResolution
    /\ gameState.extraTurnPlayerId # Null
    /\ gameState.roundWinnerId = OtherPlayer(gameState.extraTurnPlayerId)
    /\ advanceTurn(gameState, gameState.roundWinnerId).currentPlayerId = gameState.extraTurnPlayerId

\* The phases in which the current player has a car to play.
WaitingPhases == {"waiting_for_initial_play", "waiting_for_car_card_after_action"}

CurrentHoldsNoCar(state) ==
    Len(CarCardsIn(getPlayerState(state, state.currentPlayerId).hand)) = 0

(* C12: in every state the orchestrator leaves, a current player without    *)
(* car cards in a waiting phase means the match has ended with status win   *)
(* and the opponent of the current player as the winner; and the end check  *)
(* leaves a playing match playing when the current player of a waiting      *)
(* phase holds a car.                                                       *)
C12_OutOfCars ==
    /\ (CurrentHoldsNoCar(gameState) /\ gameState.currentPlayerPhase \in WaitingPhases)
          => /\ gameState.gameStatus = "win"
             /\ gameState.winnerId = OtherPlayer(gameState.currentPlayerId)
    /\ (/\ gameState.gameStatus = "playing"
        /\ gameState.currentPlayerPhase \in WaitingPhases
        /\ ~CurrentHoldsNoCar(gameState))
          => checkGameEndConditions(gameState) = gameState

\* The turn has passed to a player who has lost every car: the match is over.
C12_Witness ==
    /\ CurrentHoldsNoCar(gameState)
    /\ gameState.currentPlayerPhase = "waiting_for_initial_play"
    /\ gameState.gameStatus = "win"
    /\ gameState.winnerId = OtherPlayer(gameState.currentPlayerId)
    /\ gameEnds = 1

(* C13: in every reachable state selectedMetricForRound is null or one of   *)
(* speed, hp, accel, weight, year, whatever selectedMetric a client sends.  *)
C13_MetricIsValid == gameState.selectedMetricForRound \in Metrics \cup {Null}

(* C14: a pending metric modifier targeting a player exists only while that *)
(* player has not yet played a car in the current round: the player's car   *)
(* slot is empty, the round has not been resolved, and the action card that *)
(* recorded the modifier is still on the board of this round.               *)
C14_PendingOnlyBeforeCar ==
    \A p \in Players :
        gameState.pendingMetricModifiers[p] # <<>>
        => /\ gameState.carCardsOnBoard[p] = <<>>
           /\ gameState.currentPlayerPhase \notin ResolvedPhases
           /\ gameState.activeActionCardsOnBoard[
                  gameState.pendingMetricModifiers[p][1].sourcePlayerId] # <<>>

Ended(state) == state.gameStatus \in {"win", "tie"}

\* What the manager becomes on each event: an input of a player, an advance
\* request, the expiry of the turn timer, a disconnect, a reconnect.
EventResponses ==
    ClientResponses
        \cup {handleTimeout(Manager)}
        \cup {handlePlayerDisconnect(Manager, p) : p \in Players}
        \cup {handlePlayerReconnect(Manager, p) : p \in Players}

SameOutcome(before, after) ==
    after.gameStatus = before.gameStatus /\ after.winnerId = before.winnerId

(* C15: status monotonicity.  While gameStatus is playing, winnerId is      *)
(* null; once gameStatus is win or tie no handler of the manager changes    *)
(* gameStatus or winnerId, and no step of the match does.                   *)
C15_StatusIsFinal ==
    /\ [](gameState.gameStatus = "playing" => gameState.winnerId = Null)
    /\ [](Ended(gameState) => \A m \in EventResponses : SameOutcome(gameState, m.gameState))
    /\ [][Ended(gameState) => SameOutcome(gameState, gameState')]_vars

\* The match has ended with a delayed advance still scheduled.
C15_Witness ==
    /\ Ended(gameState)
    /\ gameEnds = 1
    /\ advanceTimers > 0
    /\ gameState.winnerId # Null

PendingEffect(p) == gameState.pendingMetricModifiers[p][1].effect

PendingPermanent(p) ==
    /\ gameState.pendingMetricModifiers[p] # <<>>
    /\ PendingEffect(p).type = "metric_mod_perm"

CardOf(cards, instanceId) ==
    CHOOSE c \in {cards[k] : k \in 1..Len(cards)} : c.instanceId = instanceId

\* Where the car just played by p is after the play: on the board, or, the
\* round being resolved, in the hand of the round's winner (p's own on a tie).
PlayedCar(after, p, instanceId) ==
    IF after.carCardsOnBoard[p] # <<>>
    THEN after.carCardsOnBoard[p][1]
    ELSE IF after.roundWinnerId # Null
    THEN CardOf(Hand(after, after.roundWinnerId), instanceId)
    ELSE CardOf(Hand(after, p), instanceId)

\* Math.round(original * (1 + value / 100)), or original + value
PermanentValue(original, effect) ==
    IF effect.modifierType = "absolute"
    THEN original + effect.value
    ELSE (2 * original * (100 + effect.value) + 100) \div 200

(* C16: a permanent metric modification persists.  When a player with a     *)
(* pending metric_mod_perm modifier plays a car, the car's current value of *)
(* the target metric is computed from its original value (absolute:         *)
(* original + value), isModifiedPermanently is true, its other metrics are  *)
(* as before, and when the round resolves a permanently modified car on the *)
(* board arrives unchanged in the hand of the winner.                       *)
C16_PermanentPersists ==
    /\ \A p \in Players : \A i \in AnyPlayOf(p) :
          LET result == performPlay(gameState, p, i[2], i[3])
              before == CardOf(HandOf(p), i[2])
              car    == PlayedCar(result.newState, p, i[2])
              t      == PendingEffect(p).targetMetric
          IN  (PendingPermanent(p) /\ IsCarOf(p, i[2]) /\ result.success)
              => /\ car.instanceId = i[2]
                 /\ car.currentMetrics[t] =
                        PermanentValue(before.originalMetrics[t], PendingEffect(p))
                 /\ car.isModifiedPermanently
                 /\ car.originalMetrics = before.originalMetrics
                 /\ \A x \in Metrics \ {t} : car.currentMetrics[x] = before.currentMetrics[x]
    /\ \A i \in BoardFilling : \A p \in Players :
          LET after == performPlay(gameState, i[1], i[2], i[3]).newState
              car   == BoardCar(FilledBoard(i), p)
          IN  car.isModifiedPermanently
              => PlayedCar(after, p, car.instanceId) = car

\* A round is over and its winner holds a car whose hp is 50 above the original.
C16_Witness ==
    /\ gameState.currentPlayerPhase \in ResolvedPhases
    /\ gameState.roundWinnerId # Null
    /\ \E k \in 1..Len(HandOf(gameState.roundWinnerId)) :
          LET c == HandOf(gameState.roundWinnerId)[k]
          IN  /\ isCarCardDef(getCardDefinition(c.cardId))
              /\ c.isModifiedPermanently
              /\ c.currentMetrics["hp"] = c.originalMetrics["hp"] + 50

CarsInHands ==
    UNION {{HandOf(p)[k] : k \in {j \in 1..Len(HandOf(p)) :
                                      isCarCardDef(getCardDefinition(HandOf(p)[j].cardId))}} :
           p \in Players}

(* C17: a temporary metric modification does not persist on the card: a car *)
(* in a hand that is not permanently modified has currentMetrics equal to   *)
(* originalMetrics.                                                         *)
C17_TemporaryDoesNotPersist ==
    \A c \in CarsInHands :
        ~c.isModifiedPermanently => c.currentMetrics = c.originalMetrics

\* The state at line 721 of the engine for the input i, the card placed.
Placed(i) == PlaceCard(gameState, i[1], i[2], i[3]).newState

\* The play i is accepted and leaves the round on metric m: the round goes on
\* with m, or it is resolved on m with m's ordering of the two board values.
PlayedOn(i, m) ==
    LET result == performPlay(gameState, i[1], i[2], i[3])
    IN  /\ result.success
        /\ Placed(i).selectedMetricForRound = m
        /\ result.newState.selectedMetricForRound = m
        /\ IF BothCarsOnBoard(Placed(i))
           THEN /\ result.newState.currentPlayerPhase \in ResolvedPhases
                /\ result.newState.roundWinnerId =
                       NamedWinner(m, Placed(i).carCardsOnBoard[P1][1].currentMetrics[m],
                                      Placed(i).carCardsOnBoard[P2][1].currentMetrics[m])
           ELSE result.newState.currentPlayerPhase \notin ResolvedPhases

\* The other player q has played an override action and a car this round.
OverriddenBy(q) ==
    /\ gameState.activeActionCardsOnBoard[q] # <<>>
    /\ getCardDefinition(gameState.activeActionCardsOnBoard[q][1].cardId).actionEffect.type
           = "override_metric"
    /\ gameState.carCardsOnBoard[q] # <<>>
    /\ gameState.pendingMetricModifiers[q] = <<>>

(* C18: override metric.  A player with a pending override_metric who plays  *)
(* a car with a metric m of the permitted set is accepted and                *)
(* selectedMetricForRound is m, whatever it was before; the other player's   *)
(* later car play in that round is accepted with or without a metric and     *)
(* leaves selectedMetricForRound as it is; the round is resolved on that     *)
(* metric with its ordering (lower wins for weight and accel).               *)
C18_OverrideMetric ==
    gameState.gameStatus = "playing"
    => \A p \in Players :
          /\ PendingOverride(p)
             => /\ gameState.currentPlayerId = p
                /\ \A i \in AnyPlayOf(p) :
                      (IsCarOf(p, i[2]) /\ i[3].selectedMetric \in PermittedMetrics(p) \cap Metrics)
                      => PlayedOn(i, i[3].selectedMetric)
          /\ ( /\ OverriddenBy(OtherPlayer(p))
               /\ gameState.carCardsOnBoard[p] = <<>>
               /\ ~PendingOverride(p)
               /\ gameState.selectedMetricForRound \in Metrics )
             => /\ gameState.currentPlayerId = p
                /\ \A i \in AnyPlayOf(p) :
                      (IsCarOf(p, i[2]) /\ gameState.currentPlayerPhase = "waiting_for_initial_play")
                      => PlayedOn(i, gameState.selectedMetricForRound)

\* The second player of the round, holding a pending override, is about to
\* replace the first player's metric by weight, and the lighter car wins.
C18_Witness ==
    \E p \in Players : \E i \in AnyPlayOf(p) :
        /\ PendingOverride(p)
        /\ gameState.selectedMetricForRound \in Metrics \ {"weight"}
        /\ IsCarOf(p, i[2])
        /\ i[3].selectedMetric = "weight"
        /\ PlayedOn(i, "weight")
        /\ performPlay(gameState, i[1], i[2], i[3]).newState.roundWinnerId # Null

(* C19: engine determinism.  For the same seed and player ids two runs of   *)
(* initializeGame return identical states (same instance identifiers, same  *)
(* gameId, same timestamp), and the same operation on the same state with   *)
(* the same input leaves the same currentTurnStartTime in both runs: no     *)
(* value of the state depends on a source other than the seed.              *)
C19_EngineDeterminism ==
    \A run1 \in Runs : \A run2 \in Runs :
        /\ \A seed \in Seeds :
              initializeGameIn(run1, PlayerIds, seed, TurnTimeLimitSeconds * 1000)
                  = initializeGameIn(run2, PlayerIds, seed, TurnTimeLimitSeconds * 1000)
        /\ \A i \in PlayInputs : \A previous \in Instants :
              TurnStartAfterPlay(run1, gameState, i[1],
                                 performPlay(gameState, i[1], i[2], i[3]), previous)
                  = TurnStartAfterPlay(run2, gameState, i[1],
                                       performPlay(gameState, i[1], i[2], i[3]), previous)
        /\ \A previous \in Instants :
              TurnStartAfterAdvance(run1, gameState, previous)
                  = TurnStartAfterAdvance(run2, gameState, previous)

\* The same instances under another definition: a car with other metrics and
\* the permanent flag set, or an action card.
Recast(cards, cardDef) ==
    [k \in 1..Len(cards) |->
        IF isCarCardDef(cardDef)
        THEN [MintInstance(cardDef, cards[k].instanceId) EXCEPT
                 !.currentMetrics["hp"] = @ + 1, !.isModifiedPermanently = TRUE]
        ELSE MintInstance(cardDef, cards[k].instanceId)]

Reversed(cards) == [k \in 1..Len(cards) |-> cards[Len(cards) + 1 - k]]

RecastDefinitions == {ALL_GAME_CARD_DEFINITIONS[1], staticActionCards[1]}

\* Hands with the instance identifiers of `hand`, and piles of the size of `pile`.
HandVariants(hand) ==
    {hand} \cup {Recast(hand, d) : d \in RecastDefinitions}
           \cup {[k \in 1..Len(hand) |->
                     IF k = 1 THEN Recast(hand, d)[1] ELSE hand[k]] : d \in RecastDefinitions}
PileVariants(pile) ==
    {pile, Reversed(pile), HideHand(pile)} \cup {Recast(pile, d) : d \in RecastDefinitions}
SeedVariants(seed) == {seed, seed + 1, 0}

\* The states that differ from `state` in what player p must not see.
HiddenVariants(state, p) ==
    {[state EXCEPT !.players[OpponentIndex(state, p)].hand = h,
                   !.drawPile = d,
                   !.rngSeed = s] :
        h \in HandVariants(getOpponentPlayerState(state, p).hand),
        d \in PileVariants(state.drawPile),
        s \in SeedVariants(state.rngSeed)}

(* C20: projection hiding.  Two states that differ only in the opponent's   *)
(* hand contents other than instance identifiers, in the contents and order *)
(* of the draw pile and in the RNG seed have equal projections for player   *)
(* P; every opponent hand entry is exactly the instance identifier and the  *)
(* sentinel definition identifier, the projected draw pile is empty with    *)
(* only its size given, and the projection has no rngSeed field.            *)
C20_ProjectionHiding ==
    \A p \in Players :
        LET view  == getClientGameState(gameState, p)
            o     == OpponentIndex(gameState, p)
        IN  /\ \A v \in HiddenVariants(gameState, p) :
                  getClientGameState(v, p) = view
            /\ Len(view.players[o].hand) = Len(gameState.players[o].hand)
            /\ \A k \in 1..Len(view.players[o].hand) :
                  /\ DOMAIN view.players[o].hand[k] = {"instanceId", "cardId"}
                  /\ view.players[o].hand[k].cardId = HiddenCardBack
                  /\ view.players[o].hand[k].instanceId = gameState.players[o].hand[k].instanceId
            /\ view.drawPile = <<>>
            /\ view.drawPileSize = Len(gameState.drawPile)
            /\ "rngSeed" \notin DOMAIN view

\* In the middle of a round, with a card already dropped, a state with another
\* opponent hand, another draw pile and another seed looks the same to a player.
C20_Witness ==
    /\ gameState.discardPile # <<>>
    /\ gameState.carCardsOnBoard # NoSlots
    /\ \E p \in Players : \E v \in HiddenVariants(gameState, p) :
          /\ getOpponentPlayerState(v, p).hand # getOpponentPlayerState(gameState, p).hand
          /\ getOpponentPlayerState(gameState, p).hand # <<>>
          /\ v.drawPile # gameState.drawPile
          /\ v.rngSeed # gameState.rngSeed
          /\ getClientGameState(v, p) = getClientGameState(gameState, p)

\* jsonpatch.applyPatch on the client: the document with the patch's fields
\* removed, added and replaced.
applyPatch(document, patch) ==
    [k \in (DOMAIN document \ patch.remove) \cup DOMAIN patch.replace |->
        IF k \in DOMAIN patch.replace THEN patch.replace[k] ELSE document[k]]

\* The state messages a handler sent to player p, in order.
StateMessagesTo(m, p) ==
    SelectSeq(m.emitted,
              LAMBDA msg : msg.to = p /\ msg.event \in {"game:patch", "game:stateUpdate"})

RECURSIVE ClientAfter(_, _)
\* What a client holding `view` holds after the messages: a full snapshot
\* replaces it, a patch is applied to it.
ClientAfter(view, messages) ==
    IF messages = <<>> THEN view
    ELSE ClientAfter(IF Head(messages).event = "game:stateUpdate"
                     THEN Head(messages).message
                     ELSE applyPatch(view, Head(messages).message),
                     Tail(messages))

\* The events of the orchestrator in this state, and its response to each.
PlayEvents == {<<"playCard", i>> : i \in AnyPlayOf(P1) \cup AnyPlayOf(P2)}
OtherEvents ==
    {<<"advanceTurn", <<p>> >> : p \in Players} \cup {<<"timeout", <<Null>> >>}
        \cup {<<"disconnect", <<p>> >> : p \in Players}
        \cup {<<"reconnect", <<p>> >> : p \in Players}
ResponseTo(e) ==
    CASE e[1] = "playCard"    -> handlePlayerMove(Manager, e[2][1], MoveOf(e[2]))
      [] e[1] = "advanceTurn" -> handleAdvanceTurn(Manager)
      [] e[1] = "timeout"     -> handleTimeout(Manager)
      [] e[1] = "disconnect"  -> handlePlayerDisconnect(Manager, e[2][1])
      [] e[1] = "reconnect"   -> handlePlayerReconnect(Manager, e[2][1])

\* The handlers that publish: a play, an advance, the expiry of the turn timer.
Publishes(e) == e[1] \in {"playCard", "advanceTurn", "timeout"}

InputsChangeNothing(m) ==
    /\ \A i \in AnyPlayOf(P1) \cup AnyPlayOf(P2) :
          handlePlayerMove(m, i[1], MoveOf(i)).gameState = m.gameState
    /\ handleAdvanceTurn(m).gameState = m.gameState

(* C22: disconnect during play.  When a player disconnects from a playing   *)
(* match the match ends at once: gameStatus is win, winnerId is the other    *)
(* player, nothing else of the game state changes, game:end with these       *)
(* values is the one message sent, to the match group, and the end-of-match  *)
(* hook is invoked once; afterwards no playCard or advanceTurn input of      *)
(* either player changes the game state.  A disconnect from a match that has *)
(* ended changes nothing but the socket registration.                        *)
C22_DisconnectEndsMatch ==
    \A p \in Players :
        LET m == handlePlayerDisconnect(Manager, p)
        IN  IF gameState.gameStatus = "playing"
            THEN /\ m.gameState = [gameState EXCEPT !.gameStatus = "win",
                                                    !.winnerId = OtherPlayer(p)]
                 /\ m.emitted = <<Message(Room, "game:end",
                                          [winnerId |-> OtherPlayer(p), gameStatus |-> "win"])>>
                 /\ m.gameEnds = gameEnds + 1
                 /\ m.playerSockets = playerSockets \ {p}
                 /\ ~m.turnTimer
                 /\ InputsChangeNothing(m)
            ELSE m = [Manager EXCEPT !.playerSockets = @ \ {p}]

\* A player left in the middle of a round while it was the other player's turn,
\* and the other player has won.
C22_Witness ==
    \E p \in Players :
        /\ p \notin playerSockets
        /\ gameState.gameStatus = "win"
        /\ gameState.winnerId = OtherPlayer(p)
        /\ gameState.currentPlayerId = OtherPlayer(p)
        /\ gameState.carCardsOnBoard[p] # <<>>
        /\ gameEnds = 1
        /\ InputsChangeNothing(Manager)

\* The players who are sent patches: a socket and a stored snapshot.
Receiving == {p \in Players : p \in playerSockets /\ lastPlayerStates[p] # <<>>}

(* C23: turn timeout.  When the turn timer fires in a playing match the      *)
(* current player loses: the state becomes gameStatus win with winnerId the  *)
(* opponent of the current player and nothing else changed, every connected  *)
(* player is sent a patch that leads to the projection of the final state,   *)
(* then game:end with these values goes to the match group and the           *)
(* end-of-match hook is invoked once.  When the match is not playing the     *)
(* timer's callback does nothing.                                            *)
C23_TurnTimeout ==
    LET m == handleTimeout(Manager)
        loser == gameState.currentPlayerId
    IN  IF gameState.gameStatus = "playing"
        THEN /\ m.gameState = [gameState EXCEPT !.gameStatus = "win",
                                                !.winnerId = OtherPlayer(loser)]
             /\ \A p \in Receiving :
                   /\ Len(StateMessagesTo(m, p)) = 1
                   /\ StateMessagesTo(m, p)[1].event = "game:patch"
                   /\ ClientAfter(lastPlayerStates[p][1], StateMessagesTo(m, p))
                          = getClientGameState(m.gameState, p)
                   /\ m.lastPlayerStates[p][1] = getClientGameState(m.gameState, p)
             /\ Len(m.emitted) = Cardinality(Receiving) + 1
             /\ m.emitted[Len(m.emitted)] =
                    Message(Room, "game:end",
                            [winnerId |-> OtherPlayer(loser), gameStatus |-> "win"])
             /\ m.gameEnds = gameEnds + 1
             /\ ~m.turnTimer
        ELSE m = Manager

\* The timer has fired on a player who held cars, with both players connected:
\* the other player has won and both clients were sent the final state.
C23_Witness ==
    /\ gameState.gameStatus = "win"
    /\ gameState.winnerId = OtherPlayer(gameState.currentPlayerId)
    /\ playerSockets = Players
    /\ ~CurrentHoldsNoCar(gameState)
    /\ gameEnds = 1
    /\ ~turnTimer
    /\ \A p \in Players : lastPlayerStates[p][1] = getClientGameState(gameState, p)

(* C24: reconnect.  handlePlayerReconnect leaves the game state unchanged,   *)
(* sends the reconnecting player one game:stateUpdate with the projection    *)
(* of the game state and no game:patch, stores this projection as the        *)
(* player's last-sent snapshot and leaves the other player's snapshot        *)
(* alone; the patches of the next play are computed against it, so a client  *)
(* that held anything else before holds the new projection after them.       *)
C24_Reconnect ==
    \A p \in Players :
        LET m    == handlePlayerReconnect(Manager, p)
            view == getClientGameState(gameState, p)
        IN  /\ m.gameState = gameState
            /\ m.emitted = <<Message(p, "game:stateUpdate", view)>>
            /\ m.lastPlayerStates[p] = <<view>>
            /\ m.lastPlayerStates[OtherPlayer(p)] = lastPlayerStates[OtherPlayer(p)]
            /\ m.playerSockets = playerSockets \cup {p}
            /\ m = [Manager EXCEPT !.emitted = m.emitted,
                                   !.lastPlayerStates[p] = <<view>>,
                                   !.playerSockets = @ \cup {p}]
            /\ \A i \in PlayInputs :
                  LET next == handlePlayerMove(m, i[1], MoveOf(i))
                  IN  (next.running /\ next.gameState # gameState)
                      => /\ ClientAfter(lastPlayerStates[OtherPlayer(p)][1],
                                        StateMessagesTo(next, p))
                                = getClientGameState(next.gameState, p)
                         /\ StateMessagesTo(next, p)[2].message
                                = compare(view, next.lastPlayerStates[p][1])

\* An action card is on the board and a player comes back with a new socket:
\* the snapshot sent shows the board and hides the other player's hand.
C24_Witness ==
    \E p \in Players :
        LET sent == handlePlayerReconnect(Manager, p).emitted[1].message
        IN  /\ gameState.gameStatus = "playing"
            /\ gameState.currentPlayerPhase = "waiting_for_car_card_after_action"
            /\ sent.activeActionCardsOnBoard # NoSlots
            /\ sent.players[OpponentIndex(gameState, p)].hand
                   = HideHand(getOpponentPlayerState(gameState, p).hand)
            /\ sent.players[OpponentIndex(gameState, p)].hand
                   # getOpponentPlayerState(gameState, p).hand
            /\ \E i \in PlayInputs :
                  handlePlayerMove(handlePlayerReconnect(Manager, p), i[1], MoveOf(i)).gameState
                      # gameState

\* What a bot policy can answer for the bot: null, or a card with a payload.
PolicyAnswers(botId) == {<<>>} \cup {<<MoveOf(i)>> : i \in AnyPlayOf(botId)}

\* The bot step runs for the bot: it is the current player of a playing match.
BotStepRuns(botId) ==
    /\ botId \in botIds
    /\ gameState.currentPlayerId = botId
    /\ gameState.gameStatus = "playing"
    /\ gameState.currentPlayerPhase # "both_cards_on_board"

\* The match as the orchestrator m leaves it is forfeited by the bot: only
\* the status and the winner have changed, game:end is the one message and
\* the end-of-match hook was invoked once.
ForfeitedBy(m, botId) ==
    /\ m.gameState = [gameState EXCEPT !.gameStatus = "win",
                                       !.winnerId = OtherPlayer(botId)]
    /\ m.emitted = <<Message(Room, "game:end",
                             [winnerId |-> OtherPlayer(botId), gameStatus |-> "win"])>>
    /\ m.gameEnds = gameEnds + 1
    /\ ~m.turnTimer

(* C25: bot failure.  When the bot step runs for the current bot player and  *)
(* the policy answers with no move, or with a move the engine rejects, the   *)
(* match ends with gameStatus win and winnerId the bot's opponent, game:end  *)
(* is emitted and the end-of-match hook is invoked; the step is the          *)
(* orchestrator's handling of the policy's answer.                           *)
C25_BotForfeits ==
    \A botId \in botIds :
        BotStepRuns(botId)
        => /\ \A move \in PolicyAnswers(botId) :
                 (move = <<>> \/ Rejects(gameState, botId, move[1].cardInstanceId,
                                         move[1].payload))
                 => ForfeitedBy(AfterDecision(Manager, botId, move), botId)
           /\ \A randomMetric \in Metrics :
                 triggerBotMove(Manager, randomMetric)
                     = AfterDecision(Manager, botId,
                                     decideMove(gameState, botId, randomMetric))

\* The bot's step is due at the start of a round: an answer without a metric
\* is rejected by the engine and forfeits the match, and so does no answer.
C25_Witness ==
    \E botId \in botIds : \E move \in PolicyAnswers(botId) :
        /\ BotStepRuns(botId)
        /\ botTimers > 0
        /\ gameState.selectedMetricForRound = Null
        /\ move # <<>>
        /\ IsCarOf(botId, move[1].cardInstanceId)
        /\ Rejects(gameState, botId, move[1].cardInstanceId, move[1].payload)
        /\ ForfeitedBy(AfterDecision(Manager, botId, move), botId)
        /\ ForfeitedBy(AfterDecision(Manager, botId, <<>>), botId)

\* The policy of the source never fails when the step runs: it answers with a
\* move, and the engine accepts the move or throws.
PolicyNeverFails ==
    \A botId \in botIds : \A randomMetric \in Metrics :
        (BotStepRuns(botId) /\ botTimers > 0)
        => LET move == decideMove(gameState, botId, randomMetric)
           IN  /\ move # <<>>
               /\ ~Rejects(gameState, botId, move[1].cardInstanceId, move[1].payload)

----------------------------------------------------------------------------
(* C26: the grace of the human-only preference *)

\* The lobby entries of waiting humans who asked for human opponents only and
\* have waited less than humanOnlyMaxWaitMs at the instant now.
InGrace(lobby, now) ==
    {lobby[i] : i \in {j \in DOMAIN lobby :
                          /\ ~lobby[j].isBot
                          /\ lobby[j].humanOnly
                          /\ now - lobby[j].joinedAt < humanOnlyMaxWaitMs}}

\* The server after each request or callback that can run now.
JoinRequests == Users \X BOOLEAN
JoinResponse(r) == matchmakingJoin(Server, authenticated, r[1], r[2], clock)
SpawnResponses ==
    IF aiSpawnTimer # <<>> /\ clock >= aiSpawnTimer[1] THEN {spawnAIBot(Server, clock)} ELSE {}
LobbyResponses == {JoinResponse(r) : r \in JoinRequests} \cup SpawnResponses

\* The pairs a response sent to the match-found listener.
MatchesFoundIn(s) ==
    {s.emitted[i].message.players : i \in {j \in DOMAIN s.emitted : s.emitted[j].event = "match-found"}}

HasBot(players) == \E i \in DOMAIN players : players[i].isBot

----------------------------------------------------------------------------
(* C27: no starvation by the human-only preference *)

\* The lobby entries of the waiting human userId.
QueuedAs(userId) ==
    {playersInLobby[i] : i \in {j \in DOMAIN playersInLobby :
                                   /\ playersInLobby[j].userId = userId
                                   /\ ~playersInLobby[j].isBot}}

GraceOver(userId) ==
    \E p \in QueuedAs(userId) : p.humanOnly /\ clock - p.joinedAt >= humanOnlyMaxWaitMs

NoPreference(userId) == \E p \in QueuedAs(userId) : ~p.humanOnly

\* The user has left the queue: into a match, or by cancelling or disconnecting.
Served(userId) == userId \in DOMAIN playerToGameMap \/ QueuedAs(userId) = {}

\* C27: a waiting human-only player whose grace has passed, and a waiting player
\* without the preference, eventually leaves the queue, into a match if the
\* player neither cancels nor disconnects.
C27_NoStarvation ==
    \A userId \in Users :
       /\ GraceOver(userId) ~> Served(userId)
       /\ NoPreference(userId) ~> Served(userId)

\* The half of C27 about players without the preference.
LonePlayerGetsBot == \A userId \in Users : NoPreference(userId) ~> Served(userId)

----------------------------------------------------------------------------
(* C28: refused and accepted matchmaking:join requests *)

\* The requests of identified sockets.
IdentifiedJoinRequests == {r \in JoinRequests : r[1] \in authenticated}

AlreadyQueuedOrMatched(userId) ==
    userId \in LobbyIds(playersInLobby) \/ userId \in DOMAIN playerToGameMap

EventsTo(s, userId) ==
    SelectSeq(s.emitted, LAMBDA msg : msg.to = userId)

\* C28: a matchmaking:join of a user who is queued or registered in an active
\* match is answered with matchmaking:error alone and changes nothing of the
\* lobby, the AI-spawn timer, the bot counter and the two registries; any other
\* join of an identified user is answered with matchmaking:joined, and the
\* user's entry, stamped with the instant of the join, is then the last of the
\* queue or one of a pair emitted by that request.
C28_JoinRefusedOrAccepted ==
    \A r \in IdentifiedJoinRequests :
       LET s == JoinResponse(r)
           entry == PlayerInLobby(r[1], clock, FALSE, r[2])
       IN  IF AlreadyQueuedOrMatched(r[1])
           THEN /\ Len(s.emitted) = 1
                /\ s.emitted[1].to = r[1]
                /\ s.emitted[1].event = "matchmaking:error"
                /\ [s EXCEPT !.emitted = <<>>] = Server
           ELSE /\ Len(EventsTo(s, r[1])) = 1
                /\ EventsTo(s, r[1])[1].event = "matchmaking:joined"
                /\ \/ /\ s.playersInLobby = Append(playersInLobby, entry)
                      /\ MatchesFoundIn(s) = {}
                   \/ /\ \E players \in MatchesFoundIn(s) :
                            \E i \in DOMAIN players : players[i] = entry
                      /\ r[1] \notin LobbyIds(s.playersInLobby)
                      /\ r[1] \in DOMAIN s.playerToGameMap

\* One identified user waits in the lobby after an AI spawn was scheduled for
\* them, another is registered in an active match, and both can ask to join.
C28_Witness ==
    /\ aiSpawnTimer # <<>>
    /\ \E userId \in authenticated : userId \in LobbyIds(playersInLobby)
    /\ \E userId \in authenticated : userId \in DOMAIN playerToGameMap

----------------------------------------------------------------------------
(* C29: the pair chosen by checkForMatch *)

\* The lobby checkForMatch is entered with by a join and by the AI-spawn callback.
LobbyAfterJoin(r) ==
    IF r[1] \in authenticated /\ ~AlreadyQueuedOrMatched(r[1])
    THEN Append(playersInLobby, PlayerInLobby(r[1], clock, FALSE, r[2]))
    ELSE <<>>
LobbyAfterSpawn ==
    LobbySet(playersInLobby, PlayerInLobby(BotId(botCounter + 1), clock, TRUE, FALSE))

\* Entry i is chosen before entry j: humans before bots, then the earlier
\* join, then the earlier insertion.
ChosenBefore(lobby, i, j) ==
    \/ ~lobby[i].isBot /\ lobby[j].isBot
    \/ /\ lobby[i].isBot = lobby[j].isBot
       /\ \/ lobby[i].joinedAt < lobby[j].joinedAt
          \/ lobby[i].joinedAt = lobby[j].joinedAt /\ i < j

\* The pairs the rule names for a lobby: its first and its second entry in the
\* order of choice.
NamedPairs(lobby) ==
    {<<lobby[i], lobby[j]>> : i \in DOMAIN lobby, j \in DOMAIN lobby} \cap
    {<<lobby[i], lobby[j]>> : i \in {a \in DOMAIN lobby :
                                       \A k \in DOMAIN lobby \ {a} : ChosenBefore(lobby, a, k)},
                              j \in {b \in DOMAIN lobby :
                                       Cardinality({k \in DOMAIN lobby \ {b} :
                                                       ChosenBefore(lobby, k, b)}) = 1}}

Paired(lobby, s) ==
    IF Len(lobby) >= 2
    THEN /\ MatchesFoundIn(s) = NamedPairs(lobby)
         /\ Cardinality({i \in DOMAIN s.emitted : s.emitted[i].event = "match-found"}) = 1
         /\ \A players \in MatchesFoundIn(s) :
               /\ Len(players) = 2
               /\ players[1].userId # players[2].userId
               /\ ~players[1].isBot
               /\ s.playersInLobby =
                     SelectSeq(lobby, LAMBDA p : p # players[1] /\ p # players[2])
               /\ Len(s.playersInLobby) = Len(lobby) - 2
    ELSE /\ MatchesFoundIn(s) = {}
         /\ s.playersInLobby = lobby

\* C29: when a join or the AI-spawn callback leaves two or more entries in the
\* lobby, one match-found event is emitted with two distinct entries and
\* exactly those two leave the lobby; the pair is the first two entries in the
\* order humans before bots, earlier join first, so its first player is a
\* human; with fewer than two entries nothing is emitted and nobody leaves.
C29_TryMatch ==
    /\ \A r \in JoinRequests :
          LobbyAfterJoin(r) # <<>> => Paired(LobbyAfterJoin(r), JoinResponse(r))
    /\ \A s \in SpawnResponses : Paired(LobbyAfterSpawn, s)

\* A human waits, the AI-spawn callback is due, and another identified user is
\* free to join: the callback pairs the human with a bot, the join with a human.
C29_Witness ==
    /\ aiSpawnTimer # <<>>
    /\ clock >= aiSpawnTimer[1]
    /\ HumansIn(playersInLobby) # <<>>
    /\ \E userId \in authenticated : ~AlreadyQueuedOrMatched(userId)

----------------------------------------------------------------------------
(* C30: one turn advance per resolved round *)

\* The manager as a game:advanceTurn request finds it and as a due
\* auto-advance callback finds it.
AdvanceEntries(m) ==
    {m} \cup (IF m.advanceTimers > 0 THEN {[m EXCEPT !.advanceTimers = @ - 1]} ELSE {})

Quiet(m) == [m EXCEPT !.emitted = <<>>]

Advancable(state) ==
    state.currentPlayerPhase = "round_resolved" /\ state.gameStatus = "playing"

\* C30: a game:advanceTurn request or auto-advance callback outside phase
\* round_resolved of a playing match changes nothing and sends nothing; in it,
\* the turn passes once to the player the round names and the phase is left, so
\* that any further request or callback, the round's own or one left over from
\* an earlier round, changes nothing and sends nothing; and while a resolved
\* round waits to be advanced a callback that will advance it is pending.
C30_AdvanceOnce ==
    /\ \A entry \in AdvanceEntries(Manager) :
          LET m == handleAdvanceTurn(entry)
          IN  IF ~Advancable(gameState)
              THEN m = entry
              ELSE /\ m.gameState.currentPlayerPhase # "round_resolved"
                   /\ m.gameState.currentPlayerId =
                         advanceTurn(gameState, gameState.roundWinnerId).currentPlayerId
                   /\ m.advanceTimers = entry.advanceTimers
                   /\ \A again \in AdvanceEntries(Quiet(m)) : handleAdvanceTurn(again) = again
    /\ running /\ Advancable(gameState) => advanceTimers > 0

\* A round is resolved while the callback of an earlier round, advanced by
\* request, is still pending beside its own.
C30_Witness ==
    /\ running
    /\ Advancable(gameState)
    /\ advanceTimers >= 2

----------------------------------------------------------------------------
(* C31: the auto-advance of a resolved round *)

\* A step of AutoAdvance, seen through the count of pending callbacks: of the
\* steps of Next only AutoAdvance takes a callback off the count, and it
\* always does.
AutoAdvanceRuns ==
    /\ running
    /\ advanceTimers > 0
    /\ advanceTimers' = advanceTimers - 1

\* A scheduled auto-advance callback is run by Node as long as the process lives.
SpecFair == Spec /\ WF_advanceTimers(AutoAdvanceRuns)

\* C31: a playing match in phase round_resolved eventually is in phase
\* waiting_for_initial_play or has ended, whether or not a client sends
\* game:advanceTurn, as long as the process lives.
C31_AutoAdvance ==
    (running /\ Advancable(gameState))
        ~> \/ gameState.currentPlayerPhase = "waiting_for_initial_play"
           \/ gameState.gameStatus # "playing"
           \/ ~running

\* The first round was resolved and advanced, every scheduled callback has run,
\* and the match goes on with the next player to open a round.
C31_Witness ==
    /\ running
    /\ rounds = 1
    /\ advanceTimers = 0
    /\ gameState.gameStatus = "playing"
    /\ gameState.currentPlayerPhase = "waiting_for_initial_play"

----------------------------------------------------------------------------
(* C32: delayed callbacks that fire late *)

\* The manager after each delayed callback, were it to fire now.
CallbackResults(m) ==
    {resolveCallback(m), handleAdvanceTurn(m), handleTimeout(m)}
        \cup {triggerBotMove(m, randomMetric) : randomMetric \in Metrics}

BotAskedToPlay(state) ==
    state.currentPlayerPhase \in {"waiting_for_initial_play", "waiting_for_car_card_after_action"}

\* C32: once the match has ended, a resolve, auto-advance, turn-timer or
\* bot-step callback returns the manager as it found it, with nothing sent; so
\* does a bot step when the current player is not a bot; and whenever a pending
\* bot step would run, the phase is one in which the bot is asked to play.
C32_StaleCallbacks ==
    /\ gameState.gameStatus # "playing"
          => CallbackResults(Manager) = {Manager}
    /\ gameState.currentPlayerId \notin botIds
          => \A randomMetric \in Metrics : triggerBotMove(Manager, randomMetric) = Manager
    /\ running /\ botTimers > 0 /\ BotStepRuns(gameState.currentPlayerId)
          => BotAskedToPlay(gameState)

\* The match ended, by the human's disconnect or time-out, while a bot step and
\* nothing else was pending.
C32_Witness ==
    /\ gameState.gameStatus # "playing"
    /\ gameEnds = 1
    /\ botTimers > 0

----------------------------------------------------------------------------
(* C33: the turn timer on reconnect and outside interactive play *)

\* The players whose reconnect the match still takes.
Reconnecting == IF running /\ gameEnds = 0 THEN Players \ botIds ELSE {}

\* No turn timer is armed while a round waits to be advanced, nor once the
\* match has ended and its manager has run endGame.
NoTimerOutsidePlay ==
    gameState.currentPlayerPhase = "round_resolved" \/ gameEnds > 0 => ~turnTimer

\* C33: after handlePlayerReconnect no turn timer is armed, and no turn timer
\* is armed in phase round_resolved or after the end of the match.
C33_TimerCancelled ==
    /\ \A playerId \in Reconnecting : ~handlePlayerReconnect(Manager, playerId).turnTimer
    /\ NoTimerOutsidePlay

----------------------------------------------------------------------------
(* C34: the bot policy *)

\* The bots whose step would run now and consult the policy.
DecidingBots == {botId \in botIds : running /\ BotStepRuns(botId)}

\* The policy answers with no move when the bot holds no car, and otherwise
\* with the first car of the bot's hand and, when the round has no metric
\* yet, one of the five metric names.
FirstCarOrNoMove ==
    \A botId \in DecidingBots : \A randomMetric \in Metrics :
       LET move == decideMove(gameState, botId, randomMetric)
           cars == CarCardsIn(getPlayerState(gameState, botId).hand)
       IN  IF cars = <<>> THEN move = <<>>
           ELSE /\ Len(move) = 1
                /\ move[1].cardInstanceId = cars[1].instanceId
                /\ IF gameState.selectedMetricForRound = Null
                   THEN move[1].payload.selectedMetric \in Metrics
                   ELSE move[1].payload.selectedMetric = Undefined

\* C34: the policy answers as FirstCarOrNoMove says, and its answer is a
\* function of the game state: two calls on the same state give the same move.
C34_PolicyDeterminism ==
    /\ FirstCarOrNoMove
    /\ \A botId \in DecidingBots : \A first \in Metrics : \A second \in Metrics :
          decideMove(gameState, botId, first) = decideMove(gameState, botId, second)


(***************************************************************************)
(* C35.  Engine-internal inconsistency is contained.                        *)
(***************************************************************************)

\* The inputs of the current player that performPlay answers with the Error
\* of a pending modifier whose action card has left the board.
InconsistentInputs ==
    {i \in Inputs :
        /\ Listening(i[1])
        /\ gameState.gameStatus = "playing"
        /\ gameState.currentPlayerId = i[1]
        /\ gameState.currentPlayerPhase # "both_cards_on_board"
        /\ performPlay(gameState, i[1], i[2], i[3]).threw}

\* The orchestrator after the input i of a player.
AfterInput(i) == handlePlayerMove(Manager, i[1], [cardInstanceId |-> i[2], payload |-> i[3]])

\* C35: when a play meets a pending modifier whose source action-board slot
\* is empty, the match ends with the other player as the winner and no
\* error leaves the orchestrator's input handler.
C35_InconsistencyContained ==
    \A i \in InconsistentInputs :
        /\ AfterInput(i).running
        /\ AfterInput(i).gameState.gameStatus = "win"
        /\ AfterInput(i).gameState.winnerId = OtherPlayer(i[1])


(***************************************************************************)
(* C36.  Registry consistency.                                              *)
(***************************************************************************)

\* The players of the registered match gameId.
PlayersOfGame(gameId) == {activeGames[gameId][i] : i \in DOMAIN activeGames[gameId]}

\* A player identifier maps to a match exactly when the match is registered
\* and the player is one of its players.
MapMatchesGames ==
    \A userId \in Users \cup {BotId(n) : n \in 1..MaxGames} : \A gameId \in 1..MaxGames :
        (userId \in DOMAIN playerToGameMap /\ playerToGameMap[userId] = gameId)
            <=> (gameId \in DOMAIN activeGames /\ userId \in PlayersOfGame(gameId))

\* Nobody waits in the lobby while registered in a match.
NotQueuedAndMatched == LobbyIds(playersInLobby) \cap DOMAIN playerToGameMap = {}

\* A match that leaves the active-match map takes its players' entries along.
RemovedTogether ==
    \A gameId \in DOMAIN activeGames :
        gameId \notin DOMAIN activeGames'
            => \A userId \in PlayersOfGame(gameId) : userId \notin DOMAIN playerToGameMap'

\* C36: after every dispatcher event a player identifier maps to a match
\* identifier if and only if that match is in the active-match map and the
\* player is one of its two players; a match that ends is removed together
\* with both of its players; and no player identifier is in the lobby queue
\* and in the player-to-match map at the same time.
C36_RegistryConsistency ==
    /\ [](MapMatchesGames /\ NotQueuedAndMatched)
    /\ [][RemovedTogether]_vars


(***************************************************************************)
(* C37.  Turn passing within a round.                                       *)
(***************************************************************************)

\* The plays the engine applies for the current player of a playing match.
AppliedPlays ==
    {i \in Inputs :
        /\ gameState.gameStatus = "playing"
        /\ gameState.currentPlayerId = i[1]
        /\ performPlay(gameState, i[1], i[2], i[3]).success}
PlayedState(i) == performPlay(gameState, i[1], i[2], i[3]).newState

\* The first car of a round: the opponent's car slot is empty.
FirstCarPlays ==
    {i \in AppliedPlays : IsCarOf(i[1], i[2]) /\ gameState.carCardsOnBoard[OtherPlayer(i[1])] = <<>>}
ActionPlays == {i \in AppliedPlays : IsActionOf(i[1], i[2])}

FirstCarPassesTurn ==
    \A i \in FirstCarPlays :
        PlayedState(i).gameStatus = "playing"
            => /\ PlayedState(i).carCardsOnBoard[i[1]] # <<>>
               /\ PlayedState(i).carCardsOnBoard[OtherPlayer(i[1])] = <<>>
               /\ PlayedState(i).currentPlayerId = OtherPlayer(i[1])
               /\ PlayedState(i).currentPlayerPhase = "waiting_for_initial_play"
ActionKeepsTurn ==
    \A i \in ActionPlays :
        /\ PlayedState(i).currentPlayerId = i[1]
        /\ PlayedState(i).currentPlayerPhase = "waiting_for_car_card_after_action"

\* C37: the first car of a round, played by the current player of a match
\* that is still playing afterwards, leaves that player's car on the board,
\* the opponent's slot empty, and passes the turn to the opponent in phase
\* waiting_for_initial_play; an action card leaves the turn with its player
\* in phase waiting_for_car_card_after_action.
C37_TurnPassing == FirstCarPassesTurn /\ ActionKeepsTurn


\* The first car of the round is on the board, the turn has passed, and the
\* opponent has answered with an action card.
C37_Witness ==
    /\ gameState.gameStatus = "playing"
    /\ \E p \in Players :
          /\ gameState.carCardsOnBoard[p] # <<>>
          /\ gameState.carCardsOnBoard[OtherPlayer(p)] = <<>>
          /\ gameState.currentPlayerId = OtherPlayer(p)
          /\ gameState.activeActionCardsOnBoard[OtherPlayer(p)] # <<>>
          /\ gameState.currentPlayerPhase = "waiting_for_car_card_after_action"


(***************************************************************************)
(* C38.  Lobby quiescence.                                                  *)
(***************************************************************************)

QueueBelowMatchSize == Len(playersInLobby) < maxPlayersPerMatch
NoBotQueued == BotsIn(playersInLobby) = <<>>
SpawnOnlyForOneHuman ==
    /\ Len(aiSpawnTimer) <= 1
    /\ aiSpawnTimer # <<>> => Len(HumansIn(playersInLobby)) = 1

\* C38: after every lobby operation the queue holds fewer than two entries
\* and no bot, at most one AI-spawn timer is pending, and one is pending only
\* while exactly one human waits.
C38_LobbyQuiescence == QueueBelowMatchSize /\ NoBotQueued /\ SpawnOnlyForOneHuman


(***************************************************************************)
(* C39.  The end of a match happens exactly once.                           *)
(***************************************************************************)

\* The orchestrator after each event it can be handed: an input of a player,
\* a disconnect or reconnect, and each delayed callback.
EventResults(m) ==
    CallbackResults(m)
        \cup {handlePlayerMove(m, i[1], MoveOf(i)) : i \in AnyPlayOf(P1) \cup AnyPlayOf(P2)}
        \cup {handlePlayerDisconnect(m, p) : p \in Players}
        \cup {handlePlayerReconnect(m, p) : p \in Players}

GameEndMessages(m) == SelectSeq(m.emitted, LAMBDA msg : msg.event = "game:end")

\* What one event does to the end of the match: game:end is sent as often as
\* the hook is invoked, at most once over the match, and once when the event
\* takes gameStatus out of playing.
EndsAtMostOnce(m) ==
    /\ Len(GameEndMessages(m)) = m.gameEnds - gameEnds
    /\ m.gameEnds <= 1
    /\ m.running /\ m.gameState.gameStatus # "playing" => m.gameEnds = 1
    /\ m.gameEnds = 1 /\ gameEnds = 0
          => GameEndMessages(m) = <<Message(Room, "game:end",
                                            [winnerId |-> m.gameState.winnerId,
                                             gameStatus |-> m.gameState.gameStatus])>>

\* C39: over any interleaving of player inputs, disconnects, turn-timer
\* expiry, bot forfeits and delayed callbacks, game:end is emitted at most
\* once per match, the end-of-match hook is invoked at most once, and both
\* happen whenever gameStatus leaves playing.
C39_EndsExactlyOnce ==
    /\ gameEnds <= 1
    /\ running => (gameState.gameStatus # "playing" <=> gameEnds = 1)
    /\ running => \A m \in EventResults(Manager) : EndsAtMostOnce(m)

\* The match has ended and an auto-advance callback is still to run.
C39_Witness ==
    /\ running
    /\ gameState.gameStatus # "playing"
    /\ gameEnds = 1
    /\ advanceTimers > 0


(***************************************************************************)
(* C40.  A recorded modifier is not dropped.                                *)
(***************************************************************************)

\* The plays of the current player the engine does not refuse with a
\* failure object: it applies them or throws.
AttemptedPlays ==
    {i \in Inputs :
        /\ gameState.gameStatus = "playing"
        /\ gameState.currentPlayerId = i[1]
        /\ \/ performPlay(gameState, i[1], i[2], i[3]).success
           \/ performPlay(gameState, i[1], i[2], i[3]).threw}

\* The modifier pending against p is on the car p played with the input i.
AppliedToCar(p, i) ==
    LET result == performPlay(gameState, i[1], i[2], i[3])
        effect == PendingEffect(p)
    IN  /\ result.success
        /\ result.newState.pendingMetricModifiers[p] = <<>>
        /\ effect.type \in {"metric_mod_temp", "metric_mod_perm"}
              => PlayedCar(result.newState, p, i[2]).currentMetrics[effect.targetMetric]
                     = ModifiedValue(CardOf(HandOf(p), i[2]).originalMetrics[effect.targetMetric],
                                     effect)

\* The next car of p carries the modifier pending against p.
PendingAppliedToNextCar ==
    \A p \in Players : \A i \in AttemptedPlays :
        (gameState.pendingMetricModifiers[p] # <<>> /\ i[1] = p /\ IsCarOf(p, i[2]))
            => AppliedToCar(p, i)

\* Any other play leaves the modifier pending against p as it is.
PendingKeptUntilCar ==
    \A p \in Players : \A i \in AttemptedPlays :
        (gameState.pendingMetricModifiers[p] # <<>> /\ ~(i[1] = p /\ IsCarOf(p, i[2])))
            => performPlay(gameState, i[1], i[2], i[3]).newState.pendingMetricModifiers[p]
                   = gameState.pendingMetricModifiers[p]

\* C40: every metric modifier recorded as pending against a player is
\* applied to the next car that player plays, and no play before that, an
\* action card of the player included, replaces or discards it.
C40_ModifierNotDropped == PendingAppliedToNextCar /\ PendingKeptUntilCar

=============================================================================
